---------------------------- MODULE Spec2Model ----------------------------
(***************************************************************************)
(* Line-delimited JSON-RPC 2.0 channel of the MCP demo:                    *)
(*   - McpStdioClient (caller side: nextId, pending table, onLine,         *)
(*     request, close)                                                     *)
(*   - mcp_stdio_server (callee side: rl.on("line"), handleRequest and     *)
(*     the three method handlers)                                          *)
(* JSON values are represented by tagged records: a type tag and, for      *)
(* numbers and strings, an integer or a string payload.                    *)
(***************************************************************************)
EXTENDS Integers, Sequences, FiniteSets, TLC

\* ------------------------------------------------------------------ bounds
\* number of request() invocations explored on one client instance
MaxCalls == 2

\* ======================================================================
\*                               CLIENT
\* ======================================================================
VARIABLES
    nextId,     \* McpStdioClient.nextId
    pending,    \* McpStdioClient.pending: id -> the call whose {resolve, reject} it holds
    calls,      \* the promises returned by request(), in call order
    answered,   \* the lines whose id onLine found in the table, in arrival order
    clientSt,   \* "open" | "closed" (close() ran) | "crashed" (onLine threw)
    cev         \* the last client event: request (with its arguments), onLine (with
                \* the kind and the id of its line, and whether the id was found
                \* in the table) or close

cvars == <<nextId, pending, calls, answered, clientSt, cev>>

VARIABLES
    srvOut,     \* the response lines written to process.stdout, in order
    srvN,       \* how many input lines the line handler has been called with
    srvLastN,   \* how many response lines the last call of the line handler wrote
    srvSt,      \* "running" | "ended" (stdin closed) | "crashed" (the line handler threw)
    sev         \* the last input line delivered to the line handler

svars == <<srvOut, srvN, srvLastN, srvSt, sev>>

VARIABLES
    wire,       \* the characters written to the stream so far
    wN          \* how many messages have been written

wirevars == <<wire, wN>>

VARIABLES
    rbNode,     \* robustness workflow: "__start__", the node that runs next, or "END"
    rbState,    \* its state: task, attempts, errors, result
    rbLog       \* the nodes that have run, in order; for primary_tool whether the
                \* random draw was a failure and whether the failure branch was taken

rbvars == <<rbNode, rbState, rbLog>>

VARIABLES
    rfNode,     \* reflexion workflow: "__start__", the node that runs next, or "END"
    rfState,    \* its state: request, content, critique, revisionNumber
    rfLog       \* the nodes that have run, in order

rfvars == <<rfNode, rfState, rfLog>>

VARIABLES
    hNode,      \* human-in-the-loop workflow: "__start__", the node that runs next, or "END"
    hState,     \* its state: task, draft, feedback, finalResult
    hLast,      \* the last node that ran, and for the last human review the line
                \* typed and the feedback the node returned
    hReviews    \* how many times the human node has run

hvars == <<hNode, hState, hLast, hReviews>>

VARIABLES
    mNode,      \* memory workflow: "__start__", the node that runs next, or "END"
    mState,     \* its state: messages, summary
    mLast,      \* the last node that ran
    mBefore     \* the messages of the state when summarize started

mvars == <<mNode, mState, mLast, mBefore>>

VARIABLES
    pNode,      \* parallel workflow: "__start__", "running" or "END"
    pStatus,    \* for each node "idle", "running" or "done"
    pState,     \* its state: topic, pros, cons, finalSummary
    pOut,       \* what positive and negative returned ("none" before they return)
    pAgg        \* how often the aggregator ran, and the pros and cons it read

pvars == <<pNode, pStatus, pState, pOut, pAgg>>

VARIABLES
    kNode,      \* planning workflow: "__start__", the node that runs next, or "END"
    kState,     \* its state: objective, plan, pastSteps, response
    kPlan,      \* the plan the planner produced
    kRuns       \* the steps the executor was run on, in order

kvars == <<kNode, kState, kPlan, kRuns>>

VARIABLES
    gNode,      \* guardrails workflow: "__start__", the node that runs next, or "END"
    gState,     \* its state: input, rawResponse, safetyStatus, finalOutput
    gLog,       \* the nodes that have run, in order
    gReplies    \* what the model answered to the audit and to the sanitizer

gvars == <<gNode, gState, gLog, gReplies>>

VARIABLES
    rtNode,     \* routing workflow: "__start__", the node that runs next, "END",
                \* or "error" when the router's value is no key of the mapping
    rtState,    \* its state: request, destination, response
    rtLog,      \* the nodes that have run, in order
    rtReply     \* what the model answered to the classifier prompt

rtvars == <<rtNode, rtState, rtLog, rtReply>>

VARIABLES
    ttNode,     \* tree-of-thoughts workflow: "__start__", the node that runs next,
                \* "END", or "error" when a node has thrown
    ttState,    \* its state: problem, thoughts, evaluations, bestThought, finalSolution
    ttAsked     \* the model calls of evaluate, in order: the thought asked about
                \* and the answer

ttvars == <<ttNode, ttState, ttAsked>>

VARIABLES
    ppNextId,   \* client connected to the server: its nextId
    ppPending,  \* its pending table
    ppCalls,    \* the calls issued, in order, each with its promise
    ppPos,      \* where request() stands: 0 when it is not running, else the id
                \* whose line is written and whose entry is not yet in the table
    toServer,   \* the lines written to the child's stdin and not yet read
    toClient,   \* the lines written to the child's stdout and not yet read
    ppSeen      \* the response lines onLine has handled: id and whether the
                \* table held an entry for it

ppvars == <<ppNextId, ppPending, ppCalls, ppPos, toServer, toClient, ppSeen>>

\* what a step of one program leaves alone: the variables of the others
xClient == <<svars, wirevars, rbvars, rfvars, hvars, mvars, pvars, kvars, gvars, rtvars, ttvars, ppvars>>
xServer == <<cvars, wirevars, rbvars, rfvars, hvars, mvars, pvars, kvars, gvars, rtvars, ttvars, ppvars>>
xWire == <<cvars, svars, rbvars, rfvars, hvars, mvars, pvars, kvars, gvars, rtvars, ttvars, ppvars>>
xRobust == <<cvars, svars, wirevars, rfvars, hvars, mvars, pvars, kvars, gvars, rtvars, ttvars, ppvars>>
xReflexion == <<cvars, svars, wirevars, rbvars, hvars, mvars, pvars, kvars, gvars, rtvars, ttvars, ppvars>>
xHitl == <<cvars, svars, wirevars, rbvars, rfvars, mvars, pvars, kvars, gvars, rtvars, ttvars, ppvars>>
xMemory == <<cvars, svars, wirevars, rbvars, rfvars, hvars, pvars, kvars, gvars, rtvars, ttvars, ppvars>>
xParallel == <<cvars, svars, wirevars, rbvars, rfvars, hvars, mvars, kvars, gvars, rtvars, ttvars, ppvars>>
xPlanning == <<cvars, svars, wirevars, rbvars, rfvars, hvars, mvars, pvars, gvars, rtvars, ttvars, ppvars>>
xSafety == <<cvars, svars, wirevars, rbvars, rfvars, hvars, mvars, pvars, kvars, rtvars, ttvars, ppvars>>
xRouting == <<cvars, svars, wirevars, rbvars, rfvars, hvars, mvars, pvars, kvars, gvars, ttvars, ppvars>>
xToT == <<cvars, svars, wirevars, rbvars, rfvars, hvars, mvars, pvars, kvars, gvars, rtvars, ppvars>>
xPair == <<cvars, svars, wirevars, rbvars, rfvars, hvars, mvars, pvars, kvars, gvars, rtvars, ttvars>>

\* ---- inbound lines of the client --------------------------------------
\* kind: "blank" (empty after trim), "malformed" (JSON.parse throws),
\*       "null" (the JSON value null), "scalar" (a JSON number, string,
\*       boolean or array), "object"
\* idT/idN: the id member: absent, a string ("<idN>") or the number idN
\* result: the result member ("absent" or a value)
\* error:  the error member ("absent", "null", or the name of an error object)
ResultVals == {"r1", "r2"}
ErrNames == {"e1", "e2"}

\* the members of the error objects a line may carry
ErrCode(e) == IF e = "e1" THEN -32601 ELSE -32602
ErrMessage(e) == IF e = "e1" THEN "m1" ELSE "m2"
ErrData(e) == IF e = "e1" THEN "undefined" ELSE "d2"

NoMembers == [idT |-> "absent", idN |-> 0, result |-> "absent", error |-> "absent"]

BlankLine == [kind |-> "blank"] @@ NoMembers
MalformedLine == [kind |-> "malformed"] @@ NoMembers
NullLine == [kind |-> "null"] @@ NoMembers
ScalarLine == [kind |-> "scalar"] @@ NoMembers

ClientIds ==
    {[idT |-> "absent", idN |-> 0]}
    \cup {[idT |-> "str", idN |-> n] : n \in 1..1}
    \cup {[idT |-> "num", idN |-> n] : n \in 1..(MaxCalls + 1)}

\* the result and error members explored: neither, result only (two
\* values), an error object only (with and without data), both, and an error
\* member that is null
Payloads ==
    {[result |-> "absent", error |-> "absent"],
     [result |-> "r1", error |-> "absent"], [result |-> "r2", error |-> "absent"],
     [result |-> "absent", error |-> "e1"], [result |-> "absent", error |-> "e2"],
     [result |-> "r1", error |-> "e2"],
     [result |-> "absent", error |-> "null"]}

ObjectLines ==
    {[kind |-> "object", idT |-> i.idT, idN |-> i.idN, result |-> p.result, error |-> p.error] :
        i \in ClientIds, p \in Payloads}

ClientLines == {BlankLine, MalformedLine, NullLine, ScalarLine} \cup ObjectLines

\* ---- promises -----------------------------------------------------------
\* st: "pending" | "resolved" | "rejected"; n: how many times resolve or
\* reject of this promise has been invoked
Unsettled(id) ==
    [id |-> id, st |-> "pending", n |-> 0, val |-> "undefined",
     code |-> 0, message |-> "undefined", data |-> "undefined"]

\* pending.resolve(v): a promise keeps its first settlement
Resolve(c, v) ==
    IF c.st = "pending"
    THEN [c EXCEPT !.st = "resolved", !.n = c.n + 1, !.val = v]
    ELSE [c EXCEPT !.n = c.n + 1]

\* pending.reject(Object.assign(new Error(message), {code, data}))
Reject(c, code, message, data) ==
    IF c.st = "pending"
    THEN [c EXCEPT !.st = "rejected", !.n = c.n + 1,
                   !.code = code, !.message = message, !.data = data]
    ELSE [c EXCEPT !.n = c.n + 1]

\* ---- onLine -------------------------------------------------------------
\* const trimmed = line.trim(); if (!trimmed) return;
IsBlank(line) == line.kind = "blank"

\* JSON.parse(trimmed) throws
ParseFails(line) == line.kind = "malformed"

\* mutant: a string id is accepted as the number it spells
IdIsNumber_coerce(line) == line.kind = "object" /\ line.idT \in {"num", "str"}

\* typeof (msg as any)?.id === "number"
IdIsNumber(line) == line.kind = "object" /\ line.idT = "num"

\* mutant: the continuation is picked by arrival order (the oldest entry)
PendingGet_byArrival(p, id) ==
    IF id \in DOMAIN p THEN p[CHOOSE k \in DOMAIN p : \A j \in DOMAIN p : k <= j] ELSE 0

\* this.pending.get(id): the call stored under id, 0 when there is none
PendingGet(p, id) == IF id \in DOMAIN p THEN p[id] ELSE 0

\* mutant: the entry is left in the table
PendingDelete_keep(p, id) == p

\* this.pending.delete(id)
PendingDelete(p, id) == [k \in (DOMAIN p) \ {id} |-> p[k]]

\* mutant: the error member is never looked at
HasError_never(line) == FALSE

\* "error" in msg
HasError(line) == line.error # "absent"

\* msg.result
ResultOf(line) == IF line.result = "absent" THEN "undefined" ELSE line.result

\* the settlement of the continuation: msg.error.message throws a TypeError
\* when msg.error is null
Settle(c, line) ==
    IF HasError(line)
    THEN Reject(c, ErrCode(line.error), ErrMessage(line.error), ErrData(line.error))
    ELSE Resolve(c, ResultOf(line))

SettleThrows(line) == HasError(line) /\ line.error = "null"

\* mutant: the parse error is thrown on
OnParseError_rethrow(st) == "crashed"

\* the catch block of JSON.parse in onLine: log and return
OnParseError(st) == st

\* the event record of a call of onLine
LineEvent(line, hit) ==
    [op |-> "onLine", kind |-> line.kind, idT |-> line.idT, idN |-> line.idN,
     hit |-> hit, method |-> "none", params |-> "none"]

onLine(line) ==
    /\ clientSt = "open"
    /\ UNCHANGED xClient
    /\ cev' = LineEvent(line, IdIsNumber(line) /\ PendingGet(pending, line.idN) # 0)
    /\ nextId' = nextId
    /\ IF IsBlank(line)
       THEN UNCHANGED <<pending, calls, answered, clientSt>>
       ELSE IF ParseFails(line)
       THEN /\ clientSt' = OnParseError(clientSt)
            /\ UNCHANGED <<pending, calls, answered>>
       ELSE IF ~IdIsNumber(line)
       THEN UNCHANGED <<pending, calls, answered, clientSt>>
       ELSE LET c == PendingGet(pending, line.idN) IN
            IF c = 0
            THEN UNCHANGED <<pending, calls, answered, clientSt>>
            ELSE /\ pending' = PendingDelete(pending, line.idN)
                 /\ answered' = Append(answered, line)
                 /\ IF SettleThrows(line)
                    THEN /\ clientSt' = "crashed"
                         /\ calls' = calls
                    ELSE /\ clientSt' = clientSt
                         /\ calls' = [calls EXCEPT ![c] = Settle(calls[c], line)]

\* ---- request ------------------------------------------------------------
Methods == {"initialize", "tools/call"}
ParamVals == {"undefined", "p1"}

\* mutant: nextId is not incremented
IdAfterAlloc_same(n) == n

\* const id = this.nextId++
AllocatedId(n) == n
IdAfterAlloc(n) == n + 1

\* this.pending.set(id, { resolve, reject })
\* mutant: request() does not record the call
PendingSet_skip(p, id, c) == p

PendingSet(p, id, c) == [k \in (DOMAIN p) \cup {id} |-> IF k = id THEN c ELSE p[k]]

request(method, params) ==
    /\ clientSt # "crashed"
    /\ Len(calls) < MaxCalls
    /\ LET id == AllocatedId(nextId) IN
        /\ nextId' = IdAfterAlloc(nextId)
        /\ calls' = Append(calls, Unsettled(id))
        /\ pending' = PendingSet(pending, id, Len(calls) + 1)
        /\ cev' = [op |-> "request", kind |-> "none", idT |-> "num", idN |-> id,
                   hit |-> FALSE, method |-> method, params |-> params]
    /\ UNCHANGED <<answered, clientSt>>
    /\ UNCHANGED xClient

\* ---- close --------------------------------------------------------------
\* mutant: close() rejects every call that is still pending
CallsAfterClose_rejected(cs) ==
    [c \in DOMAIN cs |-> IF cs[c].st = "pending"
                          THEN Reject(cs[c], 0, "closed", "undefined") ELSE cs[c]]

\* close() is rl.close() and child.kill(): it touches no promise
CallsAfterClose(cs) == cs

close ==
    /\ clientSt = "open"
    /\ clientSt' = "closed"
    /\ cev' = [op |-> "close", kind |-> "none", idT |-> "absent", idN |-> 0,
               hit |-> FALSE, method |-> "none", params |-> "none"]
    /\ calls' = CallsAfterClose(calls)
    /\ UNCHANGED <<nextId, pending, answered>>
    /\ UNCHANGED xClient

ClientNext ==
    \/ \E m \in Methods, p \in ParamVals : request(m, p)
    \/ \E l \in ClientLines : onLine(l)
    \/ close


\* ======================================================================
\*                               SERVER
\* ======================================================================
\* number of input lines explored on one server process
MaxSrvLines == 2

\* ---- JSON values ------------------------------------------------------
\* t: "absent" (undefined / member missing), "null", "bool", "num", "str",
\* "badobj" (an object whose toString member is not callable: converting it
\* to a string throws a TypeError)
Absent == [t |-> "absent", n |-> 0, s |-> ""]
Null == [t |-> "null", n |-> 0, s |-> ""]
Bool == [t |-> "bool", n |-> 1, s |-> ""]
Num(k) == [t |-> "num", n |-> k, s |-> ""]
Str(x) == [t |-> "str", n |-> 0, s |-> x]
BadObj == [t |-> "badobj", n |-> 0, s |-> ""]

\* typeof v
TypeOf(v) ==
    CASE v.t = "absent" -> "undefined"
      [] v.t = "null" -> "object"
      [] v.t = "bool" -> "boolean"
      [] v.t = "num" -> "number"
      [] v.t = "str" -> "string"
      [] v.t = "badobj" -> "object"

\* ---- input lines of the server ------------------------------------------
\* params: t is "absent" or "object"; pv is params.protocolVersion, name is
\* params.name, args is params.arguments (t "absent" or "object", with the
\* members a, b and text)
NoArgs == [t |-> "absent", a |-> Absent, b |-> Absent, text |-> Absent]
EmptyArgs == [t |-> "object", a |-> Absent, b |-> Absent, text |-> Absent]
NoParams == [t |-> "absent", pv |-> Absent, name |-> Absent, args |-> NoArgs]
EmptyParams == [t |-> "object", pv |-> Absent, name |-> Absent, args |-> NoArgs]

InitParams ==
    {NoParams,
     [EmptyParams EXCEPT !.pv = Str("2024-11-05")],
     [EmptyParams EXCEPT !.pv = Num(1)]}

\* arguments of math_add: each of a and b missing, a string or a number
MathArgs ==
    {[EmptyArgs EXCEPT !.a = a, !.b = Num(35)] : a \in {Absent, Num(7), Num(-50), Str("x")}}
    \cup {[EmptyArgs EXCEPT !.a = Num(7), !.b = b] : b \in {Absent, Str("2")}}
    \cup {[EmptyArgs EXCEPT !.a = Str("x"), !.b = Num(2)]}
EchoArgs ==
    {[EmptyArgs EXCEPT !.text = x] : x \in {Absent, Str("hello"), Str(" Hi "), Num(5)}}

CallParams ==
    {NoParams}
    \cup {[EmptyParams EXCEPT !.name = Str("math_add"), !.args = g] : g \in MathArgs \cup {NoArgs}}
    \cup {[EmptyParams EXCEPT !.name = Str("echo"), !.args = g] : g \in EchoArgs}
    \cup {[EmptyParams EXCEPT !.name = n, !.args = EmptyArgs] : n \in {Str("other"), BadObj}}

\* method: a method name, "absent" (no method member) or "badobj" (an
\* object whose toString member is not callable, so that converting it to
\* a string throws a TypeError)
MethodCalls ==
    {[method |-> "initialize", params |-> p] : p \in InitParams}
    \cup {[method |-> "tools/list", params |-> p] : p \in {NoParams, EmptyParams}}
    \cup {[method |-> "tools/call", params |-> p] : p \in CallParams}
    \cup {[method |-> m, params |-> NoParams] : m \in {"foo", "absent", "badobj"}}

SrvIds == {Absent, Null, Bool, Num(1), Str("s")}
JsonRpcVals == {"2.0", "1.0", "absent"}

NonObject(k) ==
    [kind |-> k, jsonrpc |-> "absent", id |-> Absent, method |-> "absent", params |-> NoParams]

\* a request whose jsonrpc is not "2.0" is answered without a look at its
\* method and params: those are explored with two of the method calls
ProbeCalls ==
    {[method |-> "initialize", params |-> NoParams], [method |-> "foo", params |-> NoParams]}

CallsFor(j) == IF j = "2.0" THEN MethodCalls ELSE ProbeCalls

RequestObjects ==
    UNION {{[kind |-> "object", jsonrpc |-> j, id |-> i,
             method |-> mc.method, params |-> mc.params] : i \in SrvIds, mc \in CallsFor(j)} :
           j \in JsonRpcVals}

SrvLines == {NonObject(k) : k \in {"blank", "malformed", "null", "scalar"}} \cup RequestObjects

\* ---- responses ----------------------------------------------------------
NoData == [t |-> "absent", s |-> "", name |-> Absent, args |-> NoArgs]
StrData(x) == [t |-> "str", s |-> x, name |-> Absent, args |-> NoArgs]
ToolData(name, args) == [t |-> "object", s |-> "", name |-> name, args |-> args]
\* result: t is "none" (no result member), "initialize" (protocolVersion in
\* pv), "tools" (the tool list in tools) or "content" (the items in content)
NoResult == [t |-> "none", pv |-> "", content |-> <<>>, tools |-> <<>>]
NoMessage == [tpl |-> "", arg |-> ""]

\* writeResponse: one line, JSON.stringify(res) followed by "\n"
writeResponse(res) == <<res>>

\* writeError(id, code, message, data): a data of undefined is left out by
\* JSON.stringify
writeError(id, code, message, data) ==
    writeResponse([id |-> id, kind |-> "error", code |-> code,
                   message |-> message, data |-> data, result |-> NoResult])

writeResult(id, result) ==
    writeResponse([id |-> id, kind |-> "result", code |-> 0,
                   message |-> NoMessage, data |-> NoData, result |-> result])

PROTOCOL_VERSION == "2025-06-18"

\* mutant: the schema of math_add does not require b
tools_aOnly ==
    <<[name |-> "math_add", properties |-> <<[name |-> "a", type |-> "number"],
                                             [name |-> "b", type |-> "number"]>>,
       required |-> <<"a">>],
      [name |-> "echo", properties |-> <<[name |-> "text", type |-> "string"]>>,
       required |-> <<"text">>]>>

\* the tool list: name and inputSchema (properties with their type, required)
tools ==
    <<[name |-> "math_add", properties |-> <<[name |-> "a", type |-> "number"],
                                             [name |-> "b", type |-> "number"]>>,
       required |-> <<"a", "b">>],
      [name |-> "echo", properties |-> <<[name |-> "text", type |-> "string"]>>,
       required |-> <<"text">>]>>

\* String(n) for an integer n
Digit(d) ==
    CASE d = 0 -> "0" [] d = 1 -> "1" [] d = 2 -> "2" [] d = 3 -> "3" [] d = 4 -> "4"
      [] d = 5 -> "5" [] d = 6 -> "6" [] d = 7 -> "7" [] d = 8 -> "8" [] d = 9 -> "9"
RECURSIVE Decimal(_)
Decimal(n) == IF n < 10 THEN Digit(n) ELSE Decimal(n \div 10) \o Digit(n % 10)
String(n) == IF n < 0 THEN "-" \o Decimal(0 - n) ELSE Decimal(n)

\* ---- handlers -----------------------------------------------------------
\* mutant: the server always answers with its own version
negotiated_default(clientProtocol) == PROTOCOL_VERSION

\* typeof clientProtocol === "string" ? clientProtocol : PROTOCOL_VERSION
negotiated(clientProtocol) ==
    IF TypeOf(clientProtocol) = "string" THEN clientProtocol.s ELSE PROTOCOL_VERSION

handleInitialize(id, params) ==
    LET clientProtocol == params.pv
    IN writeResult(id, [NoResult EXCEPT !.t = "initialize", !.pv = negotiated(clientProtocol)])

handleToolsList(id) == writeResult(id, [NoResult EXCEPT !.t = "tools", !.tools = tools])

\* (params as any)?.arguments ?? {}
ArgsOf(params) == IF params.args.t = "absent" THEN EmptyArgs ELSE params.args

\* mutant: the arguments are rejected only when both are not numbers
BadMathArgs_both(args) == TypeOf(args.a) # "number" /\ TypeOf(args.b) # "number"

\* typeof a !== "number" || typeof b !== "number"
BadMathArgs(args) == TypeOf(args.a) # "number" \/ TypeOf(args.b) # "number"

\* typeof text !== "string"
BadEchoArgs(args) == TypeOf(args.text) # "string"

\* mutant: the sign of the sum is lost
SumText_unsigned(a, b) == String(IF a.n + b.n < 0 THEN 0 - (a.n + b.n) ELSE a.n + b.n)

\* String(a + b) for numbers a and b
SumText(a, b) == String(a.n + b.n)

\* mutant: the text is replaced by a fixed greeting
EchoItem_hello(text) == [type |-> "text", text |-> "hello"]

\* { type: "text", text }
EchoItem(text) == [type |-> "text", text |-> text.s]

\* String(name) throws when the name cannot be converted to a string
NameToStringThrows(name) == name.t = "badobj"
NameToString(name) == IF name.t = "absent" THEN "undefined" ELSE name.s

handleToolsCall(id, params) ==
    LET name == params.name
        args == ArgsOf(params)
    IN  IF name = Str("math_add")
        THEN IF BadMathArgs(args)
             THEN writeError(id, -32602, [tpl |-> "math_add needs numbers", arg |-> ""],
                             ToolData(name, args))
             ELSE writeResult(id, [NoResult EXCEPT !.t = "content",
                                     !.content = <<[type |-> "text", text |-> SumText(args.a, args.b)]>>])
        ELSE IF name = Str("echo")
        THEN IF BadEchoArgs(args)
             THEN writeError(id, -32602, [tpl |-> "echo needs a string", arg |-> ""],
                             ToolData(name, args))
             ELSE writeResult(id, [NoResult EXCEPT !.t = "content",
                                     !.content = <<EchoItem(args.text)>>])
        ELSE writeError(id, -32601, [tpl |-> "unknown tool", arg |-> NameToString(name)],
                        ToolData(name, args))

\* the template literal of the last statement throws before anything is written
handleToolsCallThrows(params) ==
    /\ params.name # Str("math_add")
    /\ params.name # Str("echo")
    /\ NameToStringThrows(params.name)

\* ---- handleRequest ------------------------------------------------------
\* mutant: the response always carries id null
IdOrNull_null(req) == Null

\* req.id ?? null
IdOrNull(req) == IF req.id.t = "absent" THEN Null ELSE req.id

\* typeof req.id === "string" || typeof req.id === "number" || req.id === null
hasId(req) == TypeOf(req.id) = "string" \/ TypeOf(req.id) = "number" \/ req.id.t = "null"

\* mutant: every request is answered
mustRespond_always(req) == TRUE

\* hasId && req.id !== undefined
mustRespond(req) == hasId(req) /\ req.id.t # "absent"

\* mutant: the message does not carry the requested method
MethodToString_fixed(req) == "method"

\* `${req.method}` throws when the method cannot be converted to a string
MethodToStringThrows(req) == req.method = "badobj"
MethodToString(req) == IF req.method = "absent" THEN "undefined" ELSE req.method

\* mutant: the catch block writes nothing
OnHandlerError_silent(req, id) == <<>>

\* the catch block of handleRequest
OnHandlerError(req, id) ==
    IF mustRespond(req)
    THEN writeError(id, -32603, [tpl |-> "internal error", arg |-> ""], StrData("TypeError"))
    ELSE <<>>

\* the last statement of the try block: the method is none of the three
UnknownMethod(req, id) ==
    IF MethodToStringThrows(req)
    THEN OnHandlerError(req, id)
    ELSE IF mustRespond(req)
         THEN writeError(id, -32601, [tpl |-> "unknown method", arg |-> MethodToString(req)], NoData)
         ELSE <<>>

\* mutant: the jsonrpc member is not looked at
JsonRpcOk_any(req) == TRUE

\* req.jsonrpc !== "2.0" is false
JsonRpcOk(req) == req.jsonrpc = "2.0"

\* the lines handleRequest writes for a parsed value that is not null
handleRequest(req) ==
    LET id == IdOrNull(req) IN
    IF ~JsonRpcOk(req)
    THEN IF mustRespond(req)
         THEN writeError(id, -32600, [tpl |-> "jsonrpc must be 2.0", arg |-> ""], NoData)
         ELSE <<>>
    ELSE IF req.method = "initialize"
    THEN IF mustRespond(req) THEN handleInitialize(id, req.params) ELSE <<>>
    ELSE IF req.method = "tools/list"
    THEN IF mustRespond(req) THEN handleToolsList(id) ELSE <<>>
    ELSE IF req.method = "tools/call"
    THEN IF mustRespond(req)
         THEN IF handleToolsCallThrows(req.params)
              THEN OnHandlerError(req, id)
              ELSE handleToolsCall(id, req.params)
         ELSE <<>>
    ELSE UnknownMethod(req, id)

\* req.id on the parsed value null throws a TypeError before the try block
handleRequestThrows(req) == req.kind = "null"

\* ---- rl.on("line") ------------------------------------------------------
\* mutant: the parse error is swallowed without a response
OnLineError_silent(cause) == <<>>

\* the catch block of the line handler
OnLineError(cause) ==
    writeError(Null, -32700, [tpl |-> "not valid JSON", arg |-> ""], StrData(cause))

\* the lines written for one input line
lineHandler(line) ==
    IF line.kind = "blank" THEN <<>>
    ELSE IF line.kind = "malformed" THEN OnLineError("SyntaxError")
    ELSE IF handleRequestThrows(line) THEN OnLineError("TypeError")
    ELSE handleRequest(line)

\* mutant: handleRequest is called outside the try block
lineHandlerThrows_uncaught(line) == handleRequestThrows(line)

\* whether an exception leaves the line handler: JSON.parse and handleRequest
\* are both inside the try block, and the catch block only writes
lineHandlerThrows(line) == FALSE

\* mutant: the response is written in front of the earlier output
Emit_front(out, new) == new \o out

\* process.stdout.write: the line is appended to the output written so far
Emit(out, new) == out \o new

srvLine(line) ==
    /\ srvSt = "running"
    /\ srvN < MaxSrvLines
    /\ srvN' = srvN + 1
    /\ sev' = line
    /\ srvOut' = Emit(srvOut, lineHandler(line))
    /\ srvLastN' = Len(lineHandler(line))
    /\ srvSt' = IF lineHandlerThrows(line) THEN "crashed" ELSE srvSt
    /\ UNCHANGED xServer

\* the input stream closes: readline emits close and the process ends
stdinClose ==
    /\ srvSt = "running"
    /\ srvSt' = "ended"
    /\ UNCHANGED <<srvOut, srvN, srvLastN, sev>>
    /\ UNCHANGED xServer

ServerNext ==
    \/ \E l \in SrvLines : srvLine(l)
    \/ stdinClose

\* ======================================================================
\*                     THE TEXT WRITTEN TO THE CHANNEL
\* ======================================================================
\* number of writes explored on one channel
MaxWrites == 2

\* characters are one-character strings; the four below are named
LF == "LF"
CR == "CR"
QUOTE == "QUOTE"
BSL == "BSL"

\* the JavaScript strings carried by the messages explored
WireStrings ==
    {<<>>, <<"a", LF, "b">>, <<CR, QUOTE>>, <<BSL>>, <<"}", LF, "{">>}

\* mutant: the characters of a string are written as they are
EscapeChar_raw(c) == <<c>>

\* JSON.stringify on one character of a string
EscapeChar(c) ==
    CASE c = LF -> <<BSL, "n">>
      [] c = CR -> <<BSL, "r">>
      [] c = QUOTE -> <<BSL, QUOTE>>
      [] c = BSL -> <<BSL, BSL>>
      [] OTHER -> <<c>>

\* JSON.stringify on a string
RECURSIVE EscapeAll(_)
EscapeAll(str) == IF str = <<>> THEN <<>> ELSE EscapeChar(Head(str)) \o EscapeAll(Tail(str))
QuoteJSONString(str) == <<QUOTE>> \o EscapeAll(str) \o <<QUOTE>>

\* JSON.stringify on an integer
RECURSIVE DecimalChars(_)
DecimalChars(n) == IF n < 10 THEN <<Digit(n)>> ELSE Append(DecimalChars(n \div 10), Digit(n % 10))
NumberChars(n) == IF n < 0 THEN <<"-">> \o DecimalChars(0 - n) ELSE DecimalChars(n)

\* a member: "key":value
Member(key, value) == QuoteJSONString(key) \o <<":">> \o value

\* the members every message starts with: "jsonrpc":"2.0","id":<id>
Envelope(id) ==
    Member(<<"j", "s", "o", "n", "r", "p", "c">>, QuoteJSONString(<<"2", ".", "0">>))
    \o <<",">> \o Member(<<"i", "d">>, NumberChars(id))

\* the messages explored: a request (params undefined, or {text}), a result
\* of tools/call, an error without data
WireRequests ==
    {[kind |-> "request", id |-> 1, method |-> m, hasParams |-> FALSE, text |-> <<>>] :
        m \in WireStrings}
    \cup {[kind |-> "request", id |-> 12, method |-> <<"m">>, hasParams |-> TRUE, text |-> t] :
        t \in WireStrings}
WireResponses ==
    {[kind |-> "result", id |-> 1, text |-> t] : t \in WireStrings}
    \cup {[kind |-> "error", id |-> 2, code |-> -32601, message |-> t] : t \in WireStrings}

\* JSON.stringify(req) for { jsonrpc, id, method, ...(params === undefined ? {} : { params }) }
StringifyRequest(req) ==
    <<"{">> \o Envelope(req.id)
    \o <<",">> \o Member(<<"m", "e", "t", "h", "o", "d">>, QuoteJSONString(req.method))
    \o (IF req.hasParams
        THEN <<",">> \o Member(<<"p", "a", "r", "a", "m", "s">>,
                               <<"{">> \o Member(<<"t", "e", "x", "t">>, QuoteJSONString(req.text))
                               \o <<"}">>)
        ELSE <<>>)
    \o <<"}">>

\* JSON.stringify(res) for { jsonrpc, id, result: { content: [{ type: "text", text }] } }
\* and for { jsonrpc, id, error: { code, message } }
StringifyResponse(res) ==
    <<"{">> \o Envelope(res.id) \o <<",">>
    \o (IF res.kind = "result"
        THEN Member(<<"r", "e", "s", "u", "l", "t">>,
                 <<"{">> \o Member(<<"c", "o", "n", "t", "e", "n", "t">>,
                     <<"[", "{">>
                     \o Member(<<"t", "y", "p", "e">>, QuoteJSONString(<<"t", "e", "x", "t">>))
                     \o <<",">> \o Member(<<"t", "e", "x", "t">>, QuoteJSONString(res.text))
                     \o <<"}", "]">>)
                 \o <<"}">>)
        ELSE Member(<<"e", "r", "r", "o", "r">>,
                 <<"{">> \o Member(<<"c", "o", "d", "e">>, NumberChars(res.code))
                 \o <<",">> \o Member(<<"m", "e", "s", "s", "a", "g", "e">>,
                                      QuoteJSONString(res.message))
                 \o <<"}">>))
    \o <<"}">>

\* `${...}\n`
Terminate(text) == Append(text, LF)

\* this.child.stdin.write(payload) in request()
clientWrite(req) ==
    /\ wN < MaxWrites
    /\ wire' = wire \o Terminate(StringifyRequest(req))
    /\ wN' = wN + 1
    /\ UNCHANGED xWire

\* process.stdout.write in writeResponse
serverWrite(res) ==
    /\ wN < MaxWrites
    /\ wire' = wire \o Terminate(StringifyResponse(res))
    /\ wN' = wN + 1
    /\ UNCHANGED xWire

WireNext ==
    \/ \E req \in WireRequests : clientWrite(req)
    \/ \E res \in WireResponses : serverWrite(res)

\* ======================================================================
\*                  ROBUSTNESS WORKFLOW (robustness_agent.ts)
\* ======================================================================
\* the replies of the language model: the content of the response, which
\* may be the empty string; "undefined" stands for a channel never written
Replies == {"", "r1", "r2"}
Tasks == {"t1", "t2", "t3"}

\* if (x): undefined and the empty string are falsy
Truthy(x) == x \notin {"undefined", ""}

\* attempts < 2
CanFail(attempts) == attempts < 2

\* mutant: the fallback is never chosen
routeLogic_noFallback(state) ==
    IF Truthy(state.result) THEN "END" ELSE "primary_tool"

routeLogic(state) ==
    IF Truthy(state.result) THEN "END"
    ELSE IF state.attempts >= 3 THEN "fallback"
    ELSE "primary_tool"

\* the channels before a run: the defaults of attempts and errors; task and
\* result have none
RobustState == [task |-> "undefined", attempts |-> 0, errors |-> <<>>, result |-> "undefined"]

\* app.invoke({ task }): the input is written and the edge from __start__
\* leads to primary_tool
robustInvoke(task) ==
    /\ rbNode = "__start__"
    /\ rbState' = [rbState EXCEPT !.task = task]
    /\ rbNode' = "primary_tool"
    /\ UNCHANGED rbLog
    /\ UNCHANGED xRobust

\* primary_tool: isFailure is Math.random() > 0.2, reply the model's answer
\* when it is asked; the update goes through the reducers (attempts and
\* result overwritten, errors concatenated) and routeLogic picks the next node
unstableToolNode(isFailure, reply) ==
    /\ rbNode = "primary_tool"
    /\ LET attempts == rbState.attempts
           failed == isFailure /\ CanFail(attempts)
           next == IF failed
                   THEN [rbState EXCEPT !.attempts = attempts + 1,
                                        !.errors = rbState.errors \o <<attempts + 1>>]
                   ELSE [rbState EXCEPT !.attempts = attempts + 1, !.result = reply]
       IN /\ rbState' = next
          /\ rbLog' = Append(rbLog, [node |-> "primary_tool", isFailure |-> isFailure,
                                     failed |-> failed, attempts |-> attempts])
          /\ rbNode' = routeLogic(next)
    /\ UNCHANGED xRobust

fallbackNode(reply) ==
    /\ rbNode = "fallback"
    /\ rbState' = [rbState EXCEPT !.result = reply]
    /\ rbLog' = Append(rbLog, [node |-> "fallback", isFailure |-> FALSE,
                               failed |-> FALSE, attempts |-> rbState.attempts])
    /\ rbNode' = "END"
    /\ UNCHANGED xRobust

RobustNext ==
    \/ \E t \in Tasks : robustInvoke(t)
    \/ \E f \in BOOLEAN, r \in Replies : unstableToolNode(f, r)
    \/ \E r \in Replies : fallbackNode(r)

\* ======================================================================
\*                  REFLEXION WORKFLOW (generate / reflect)
\* ======================================================================
\* a text is a sequence of pieces; `includes` looks for a piece
Requests == {<<"topic1">>, <<"topic2">>}
Drafts == {<<>>, <<"draft1">>, <<"draft2">>}
Critiques ==
    {<<>>, <<"fix">>, <<"TERMINATE">>, <<"fix", "TERMINATE", "fix">>, <<"terminate">>}

\* critique.includes("TERMINATE")
Includes(text, piece) == \E k \in 1..Len(text) : text[k] = piece

\* the channels before a run: the defaults of the four annotations
ReflexionState == [request |-> <<>>, content |-> <<>>, critique |-> <<>>, revisionNumber |-> 0]

MAX_ITERATIONS == 3

\* mutant: the bound is tested one revision late
shouldContinue_late(state) ==
    IF state.revisionNumber >= MAX_ITERATIONS + 1 THEN "END"
    ELSE IF Includes(state.critique, "TERMINATE") THEN "END"
    ELSE "generate"

shouldContinue(state) ==
    IF state.revisionNumber >= MAX_ITERATIONS THEN "END"
    ELSE IF Includes(state.critique, "TERMINATE") THEN "END"
    ELSE "generate"

\* app.invoke(inputs): the request is written and the edge from __start__
\* leads to generate
reflexionInvoke(topic) ==
    /\ rfNode = "__start__"
    /\ rfState' = [rfState EXCEPT !.request = topic]
    /\ rfNode' = "generate"
    /\ UNCHANGED rfLog
    /\ UNCHANGED xReflexion

\* generate: the reply of the generator model becomes the content
generationNode(reply) ==
    /\ rfNode = "generate"
    /\ rfState' = [rfState EXCEPT !.content = reply,
                                  !.revisionNumber = rfState.revisionNumber + 1]
    /\ rfLog' = Append(rfLog, "generate")
    /\ rfNode' = "reflect"
    /\ UNCHANGED xReflexion

\* reflect: the reply of the critic becomes the critique, and shouldContinue
\* picks the next node
reflectionNode(reply) ==
    /\ rfNode = "reflect"
    /\ LET next == [rfState EXCEPT !.critique = reply]
       IN /\ rfState' = next
          /\ rfNode' = shouldContinue(next)
    /\ rfLog' = Append(rfLog, "reflect")
    /\ UNCHANGED xReflexion

ReflexionNext ==
    \/ \E r \in Requests : reflexionInvoke(r)
    \/ \E d \in Drafts : generationNode(d)
    \/ \E c \in Critiques : reflectionNode(c)

\* ======================================================================
\*               HUMAN-IN-THE-LOOP WORKFLOW (hitl_agent.ts)
\* ======================================================================
\* number of human reviews explored in one run
MaxReviews == 2

\* texts are sequences of characters; a channel that was never written and
\* the empty string are both falsy and are both the empty sequence (the code
\* tests such a value for truthiness only)
APPROVE == <<"a", "p", "p", "r", "o", "v", "e">>
OK == <<"o", "k">>

\* the lines a human may type
TypedLines ==
    {<<>>, <<" ">>, OK, <<"O", "K">>, <<" ", "o", "k", " ">>, APPROVE,
     <<"A", "p", "p", "r", "o", "v", "e">>, <<"o", "k", "a", "y">>, <<"n", "o">>}
HitlDrafts == {<<"d", "1">>, <<"d", "2">>}
HitlTasks == {<<"t", "1">>, <<"t", "2">>}

\* answer.trim()
RECURSIVE TrimStart(_)
TrimStart(t) == IF t # <<>> /\ Head(t) = " " THEN TrimStart(Tail(t)) ELSE t
RECURSIVE TrimEnd(_)
TrimEnd(t) == IF t # <<>> /\ t[Len(t)] = " " THEN TrimEnd(SubSeq(t, 1, Len(t) - 1)) ELSE t
Trim(t) == TrimEnd(TrimStart(t))

\* feedback.toLowerCase()
LowerChar(c) ==
    CASE c = "A" -> "a" [] c = "O" -> "o" [] c = "K" -> "k" [] OTHER -> c
ToLowerCase(t) == [k \in 1..Len(t) |-> LowerChar(t[k])]

\* readUserInput: the answer, trimmed
readUserInput(typed) == Trim(typed)

\* the channels before a run: none of the four annotations has a default
HitlState == [task |-> <<>>, draft |-> <<>>, feedback |-> <<>>, finalResult |-> <<>>]

\* mutant: an empty answer is passed on as it is
DefaultFeedback_empty == <<>>

\* the feedback returned for an empty answer (a fixed request to revise)
DefaultFeedback == <<"r", "e", "v", "i", "s", "e", "!">>

\* the feedback humanReviewNode returns for the answer read
ReviewFeedback(feedback) ==
    IF ToLowerCase(feedback) = APPROVE \/ ToLowerCase(feedback) = OK THEN APPROVE
    ELSE IF feedback # <<>> THEN feedback
    ELSE DefaultFeedback

router(state) ==
    IF state.feedback = APPROVE THEN "sender"
    ELSE IF state.feedback # <<>> THEN "writer"
    ELSE "sender"

\* app.invoke({ task }): the edge from __start__ leads to writer
hitlInvoke(task) ==
    /\ hNode = "__start__"
    /\ hState' = [hState EXCEPT !.task = task]
    /\ hNode' = "writer"
    /\ UNCHANGED <<hLast, hReviews>>
    /\ UNCHANGED xHitl

\* writer: a revision clears the feedback, a first draft leaves it alone
writeNode(reply) ==
    /\ hNode = "writer"
    /\ hState' = IF hState.feedback # <<>>
                 THEN [hState EXCEPT !.draft = reply, !.feedback = <<>>]
                 ELSE [hState EXCEPT !.draft = reply]
    /\ hLast' = [hLast EXCEPT !.node = "writer"]
    /\ hNode' = "human"
    /\ UNCHANGED hReviews
    /\ UNCHANGED xHitl

\* human: the typed line is read, turned into the feedback, and router picks
\* the next node
humanReviewNode(typed) ==
    /\ hNode = "human"
    /\ hReviews < MaxReviews
    /\ LET feedback == ReviewFeedback(readUserInput(typed))
           next == [hState EXCEPT !.feedback = feedback]
       IN /\ hState' = next
          /\ hLast' = [node |-> "human", typed |-> typed, feedback |-> feedback]
          /\ hNode' = router(next)
    /\ hReviews' = hReviews + 1
    /\ UNCHANGED xHitl

sendNode ==
    /\ hNode = "sender"
    /\ hState' = [hState EXCEPT !.finalResult = <<"S", "E", "N", "T">>]
    /\ hLast' = [hLast EXCEPT !.node = "sender"]
    /\ hNode' = "END"
    /\ UNCHANGED hReviews
    /\ UNCHANGED xHitl

HitlNext ==
    \/ \E task \in HitlTasks : hitlInvoke(task)
    \/ \E d \in HitlDrafts : writeNode(d)
    \/ \E t \in TypedLines : humanReviewNode(t)
    \/ sendNode

\* ======================================================================
\*                    MEMORY WORKFLOW (memory agent)
\* ======================================================================
\* the contents of the messages of a history, in order
Contents == <<"c1", "c2", "c3", "c4", "c5", "c6", "c7">>

\* a history of n messages built without ids, human and assistant messages
\* in turn, the first one of type first
Other(type) == IF type = "human" THEN "ai" ELSE "human"
History(n, first) ==
    [k \in 1..n |-> [type |-> IF k % 2 = 1 THEN first ELSE Other(first),
                     content |-> Contents[k], id |-> "undefined"]]
Histories == {History(n, first) : n \in 0..Len(Contents), first \in {"human", "ai"}}

\* what the model answers in the chat node, and the summaries it writes
ChatReplies ==
    {[type |-> "ai", content |-> c, id |-> i] : c \in {"hello", ""}, i \in {"run-1", "undefined"}}
Summaries == {"", "s1", "s2"}

\* new RemoveMessage({ id: m.id! })
RemoveMessage(m) == [type |-> "remove", content |-> "", id |-> m.id]

\* the reducer of messages, (x, y) => x.concat(y)
messagesReducer(x, y) == x \o y

\* the reducer of summary, (x, y) => y ?? x  (an update is never undefined here)
summaryReducer(x, y) == y

\* messages.slice(0, -2)
SliceAllButLastTwo(messages) ==
    IF Len(messages) <= 2 THEN <<>> ELSE SubSeq(messages, 1, Len(messages) - 2)

MemoryState == [messages |-> <<>>, summary |-> ""]

shouldSummarize(state) == IF Len(state.messages) > 6 THEN "summarize" ELSE "END"

\* app.invoke({ messages }): the input goes through the reducer, then chat
memoryInvoke(history) ==
    /\ mNode = "__start__"
    /\ mState' = [mState EXCEPT !.messages = messagesReducer(@, history)]
    /\ mNode' = "chat"
    /\ UNCHANGED <<mLast, mBefore>>
    /\ UNCHANGED xMemory

\* chat: the model's answer is added, then shouldSummarize picks the next node
chatNode(response) ==
    /\ mNode = "chat"
    /\ LET next == [mState EXCEPT !.messages = messagesReducer(@, <<response>>)]
       IN /\ mState' = next
          /\ mNode' = shouldSummarize(next)
    /\ mLast' = "chat"
    /\ UNCHANGED mBefore
    /\ UNCHANGED xMemory

\* summarize: the new summary and one RemoveMessage for every message but the
\* last two, each applied through the reducer of its channel
summarizeNode(newSummary) ==
    /\ mNode = "summarize"
    /\ LET messages == mState.messages
           deleteMessages ==
               [k \in 1..Len(SliceAllButLastTwo(messages)) |->
                   RemoveMessage(SliceAllButLastTwo(messages)[k])]
       IN mState' = [summary |-> summaryReducer(mState.summary, newSummary),
                     messages |-> messagesReducer(messages, deleteMessages)]
    /\ mBefore' = mState.messages
    /\ mLast' = "summarize"
    /\ mNode' = "END"
    /\ UNCHANGED xMemory

MemoryNext ==
    \/ \E h \in Histories : memoryInvoke(h)
    \/ \E r \in ChatReplies : chatNode(r)
    \/ \E t \in Summaries : summarizeNode(t)

\* ======================================================================
\*                  PARALLEL WORKFLOW (parallel_agent.ts)
\* ======================================================================
Topics == {"topic1", "topic2", "topic3"}
ProsReplies == {"", "p1", "p2"}
ConsReplies == {"", "c1", "c2"}
SummaryReplies == {"", "sum1", "sum2"}

ParallelState == [topic |-> "undefined", pros |-> "", cons |-> "", finalSummary |-> "undefined"]

\* the reducer of pros and of cons, (x, y) => y ?? x; "none" is no value
lastValue(x, y) == IF y = "none" THEN x ELSE y

\* mutant: the step is over as soon as one of the two nodes has returned
StepComplete_any(status) == status.positive = "done" \/ status.negative = "done"

\* positive and negative are started together from __start__ and form one
\* step of the graph; the step is over when both have returned
StepComplete(status) == status.positive = "done" /\ status.negative = "done"

\* the end of a node of the first step: its update is kept; when the step is
\* over the updates are applied and the node both edges lead to is started
AfterBranch(status, out) ==
    /\ pOut' = out
    /\ IF StepComplete(status)
       THEN /\ pState' = [pState EXCEPT !.pros = lastValue(@, out.positive),
                                        !.cons = lastValue(@, out.negative)]
            /\ pStatus' = [status EXCEPT !.aggregator = "running"]
       ELSE /\ pState' = pState
            /\ pStatus' = status

\* app.invoke({ topic }): both edges from __start__ are followed
parallelInvoke(topic) ==
    /\ pNode = "__start__"
    /\ pState' = [pState EXCEPT !.topic = topic]
    /\ pStatus' = [pStatus EXCEPT !.positive = "running", !.negative = "running"]
    /\ pNode' = "running"
    /\ UNCHANGED <<pOut, pAgg>>
    /\ UNCHANGED xParallel

positiveNode(reply) ==
    /\ pStatus.positive = "running"
    /\ AfterBranch([pStatus EXCEPT !.positive = "done"], [pOut EXCEPT !.positive = reply])
    /\ UNCHANGED <<pNode, pAgg>>
    /\ UNCHANGED xParallel

negativeNode(reply) ==
    /\ pStatus.negative = "running"
    /\ AfterBranch([pStatus EXCEPT !.negative = "done"], [pOut EXCEPT !.negative = reply])
    /\ UNCHANGED <<pNode, pAgg>>
    /\ UNCHANGED xParallel

\* aggregator: reads topic, pros and cons, writes finalSummary; then END
aggregatorNode(reply) ==
    /\ pStatus.aggregator = "running"
    /\ pAgg' = [runs |-> pAgg.runs + 1, pros |-> pState.pros, cons |-> pState.cons]
    /\ pState' = [pState EXCEPT !.finalSummary = reply]
    /\ pStatus' = [pStatus EXCEPT !.aggregator = "done"]
    /\ pNode' = "END"
    /\ UNCHANGED pOut
    /\ UNCHANGED xParallel

ParallelNext ==
    \/ \E t \in Topics : parallelInvoke(t)
    \/ \E r \in ProsReplies : positiveNode(r)
    \/ \E r \in ConsReplies : negativeNode(r)
    \/ \E r \in SummaryReplies : aggregatorNode(r)

\* ======================================================================
\*                  PLANNING WORKFLOW (planning_agent.ts)
\* ======================================================================
\* what the model answers to the planner: texts with line feeds
PlanReplies ==
    {<<>>, <<" ", LF, LF>>, <<"a">>, <<"a", LF, "b">>,
     <<"b", LF, " ", LF, "a", LF>>, <<"a", LF, "b", LF, "c">>}
StepResults == {"r1", "r2"}
Objectives == {"goal1", "goal2"}

\* text.split('\n')
RECURSIVE SplitLines(_)
SplitLines(text) ==
    IF \E k \in 1..Len(text) : text[k] = LF
    THEN LET k == CHOOSE j \in 1..Len(text) :
                      text[j] = LF /\ \A i \in 1..(j - 1) : text[i] # LF
         IN <<SubSeq(text, 1, k - 1)>> \o SplitLines(SubSeq(text, k + 1, Len(text)))
    ELSE <<text>>

\* lines.filter(line => line.trim().length > 0)
RECURSIVE NonBlank(_)
NonBlank(lines) ==
    IF lines = <<>> THEN <<>>
    ELSE IF Len(Trim(Head(lines))) > 0 THEN <<Head(lines)>> \o NonBlank(Tail(lines))
    ELSE NonBlank(Tail(lines))

\* plan[0]; beyond the end of the plan it is undefined, which no line is
NoStep == <<"undefined">>
FirstStep(plan) == IF plan = <<>> THEN NoStep ELSE Head(plan)

\* plan.slice(1)
SliceFromOne(plan) == IF plan = <<>> THEN <<>> ELSE Tail(plan)

PlanningState == [objective |-> "undefined", plan |-> <<>>, pastSteps |-> <<>>,
                  response |-> "undefined"]

\* shouldContinue of the planning workflow
planShouldContinue(state) == IF Len(state.plan) > 0 THEN "executor" ELSE "responder"

\* app.invoke({ objective }): the edge from __start__ leads to planner
planningInvoke(objective) ==
    /\ kNode = "__start__"
    /\ kState' = [kState EXCEPT !.objective = objective]
    /\ kNode' = "planner"
    /\ UNCHANGED <<kPlan, kRuns>>
    /\ UNCHANGED xPlanning

\* planner: the non-blank lines of the answer are the plan; the edge to
\* executor is unconditional
plannerNode(reply) ==
    /\ kNode = "planner"
    /\ LET plan == NonBlank(SplitLines(reply))
       IN /\ kState' = [kState EXCEPT !.plan = plan]
          /\ kPlan' = plan
    /\ kNode' = "executor"
    /\ UNCHANGED kRuns
    /\ UNCHANGED xPlanning

\* executor: runs plan[0], appends the result, drops the first step; then
\* shouldContinue picks the next node
executorNode(result) ==
    /\ kNode = "executor"
    /\ LET currentStep == FirstStep(kState.plan)
           next == [kState EXCEPT !.pastSteps = @ \o <<result>>,
                                  !.plan = SliceFromOne(kState.plan)]
       IN /\ kRuns' = Append(kRuns, currentStep)
          /\ kState' = next
          /\ kNode' = planShouldContinue(next)
    /\ UNCHANGED kPlan
    /\ UNCHANGED xPlanning

responseNode(reply) ==
    /\ kNode = "responder"
    /\ kState' = [kState EXCEPT !.response = reply]
    /\ kNode' = "END"
    /\ UNCHANGED <<kPlan, kRuns>>
    /\ UNCHANGED xPlanning

PlanningNext ==
    \/ \E o \in Objectives : planningInvoke(o)
    \/ \E r \in PlanReplies : plannerNode(r)
    \/ \E r \in StepResults : executorNode(r)
    \/ \E r \in StepResults : responseNode(r)

\* ======================================================================
\*                  GUARDRAILS WORKFLOW (guardrails agent)
\* ======================================================================
SafetyInputs == {"in1", "in2", "in3"}
RawResponses == {"", "raw1", "raw2"}
\* what the model answers to the audit, as sequences of words
AuditReplies ==
    {<<>>, <<"SAFE">>, <<"UNSAFE">>, <<"it", "is", "UNSAFE", "indeed">>,
     <<"unsafe">>, <<"NOT", "SAFE">>}
\* what the model answers to the sanitizer; it may repeat the raw response
Rewrites == {"", "clean", "raw1"}

SafetyState == [input |-> "undefined", rawResponse |-> "undefined",
                safetyStatus |-> "undefined", finalOutput |-> "undefined"]

\* res.content.toString().includes("UNSAFE") ? "UNSAFE" : "SAFE"
AuditStatus(reply) == IF Includes(reply, "UNSAFE") THEN "UNSAFE" ELSE "SAFE"

\* mutant: every response passes
safetyRouteLogic_pass(state) == "pass"

\* routeLogic of the guardrails workflow
safetyRouteLogic(state) == IF state.safetyStatus = "UNSAFE" THEN "sanitize" ELSE "pass"

\* app.invoke({ input }): the edge from __start__ leads to generate
safetyInvoke(input) ==
    /\ gNode = "__start__"
    /\ gState' = [gState EXCEPT !.input = input]
    /\ gNode' = "generate"
    /\ UNCHANGED <<gLog, gReplies>>
    /\ UNCHANGED xSafety

generateNode(reply) ==
    /\ gNode = "generate"
    /\ gState' = [gState EXCEPT !.rawResponse = reply]
    /\ gLog' = Append(gLog, [node |-> "generate"])
    /\ gNode' = "audit"
    /\ UNCHANGED gReplies
    /\ UNCHANGED xSafety

\* audit: the status is derived from the answer, then routeLogic picks the
\* next node
auditNode(reply) ==
    /\ gNode = "audit"
    /\ LET next == [gState EXCEPT !.safetyStatus = AuditStatus(reply)]
       IN /\ gState' = next
          /\ gNode' = safetyRouteLogic(next)
    /\ gLog' = Append(gLog, [node |-> "audit"])
    /\ gReplies' = [gReplies EXCEPT !.audit = reply]
    /\ UNCHANGED xSafety

sanitizeNode(reply) ==
    /\ gNode = "sanitize"
    /\ gState' = [gState EXCEPT !.finalOutput = reply]
    /\ gLog' = Append(gLog, [node |-> "sanitize"])
    /\ gReplies' = [gReplies EXCEPT !.sanitize = reply]
    /\ gNode' = "END"
    /\ UNCHANGED xSafety

passNode ==
    /\ gNode = "pass"
    /\ gState' = [gState EXCEPT !.finalOutput = gState.rawResponse]
    /\ gLog' = Append(gLog, [node |-> "pass"])
    /\ gNode' = "END"
    /\ UNCHANGED gReplies
    /\ UNCHANGED xSafety

SafetyNext ==
    \/ \E i \in SafetyInputs : safetyInvoke(i)
    \/ \E r \in RawResponses : generateNode(r)
    \/ \E r \in AuditReplies : auditNode(r)
    \/ \E r \in Rewrites : sanitizeNode(r)
    \/ passNode

\* ======================================================================
\*                    ROUTING WORKFLOW (routing agent)
\* ======================================================================
RoutingRequests == {"ask1", "ask2", "ask3"}
\* what the model answers to the classifier prompt, as characters
ClassifierReplies ==
    {<<>>, <<"T", "E", "C", "H">>, <<"t", "e", "c", "h">>, <<" ", "L", "i", "f", "e", " ">>,
     <<"L", "I", "F", "E">>, <<"G", "E", "N", "E", "R", "A", "L">>,
     <<"l", "i", "f", "e", "t", "e", "c", "h">>, <<"T", "E", " ", "C", "H">>,
     <<"t", "e", "c", "h", "l", "i", "f", "e">>, <<"L", "I", "F">>}
HandlerReplies == {"", "answer1", "answer2"}

\* toUpperCase()
UpperChar(c) ==
    CASE c = "t" -> "T" [] c = "e" -> "E" [] c = "c" -> "C" [] c = "h" -> "H"
      [] c = "l" -> "L" [] c = "i" -> "I" [] c = "f" -> "F" [] OTHER -> c

\* mutant: the reply is compared as it was written
ToUpperCase_asIs(t) == t

ToUpperCase(t) == [k \in 1..Len(t) |-> UpperChar(t[k])]

\* text.includes(piece), piece not empty
Contains(text, piece) ==
    \E k \in 1..(Len(text) - Len(piece) + 1) : SubSeq(text, k, k + Len(piece) - 1) = piece

\* the destination routerNode derives from the model's answer
Destination(content) ==
    LET category == ToUpperCase(Trim(content))
    IN IF Contains(category, <<"T", "E", "C", "H">>) THEN "tech_agent"
       ELSE IF Contains(category, <<"L", "I", "F", "E">>) THEN "life_agent"
       ELSE "general_agent"

RoutingState == [request |-> "undefined", destination |-> "undefined", response |-> "undefined"]

\* routeLogic of the routing workflow
routingRouteLogic(state) == state.destination

\* the keys of the mapping given to addConditionalEdges
RoutingKeys == {"tech_agent", "life_agent", "general_agent"}

\* app.invoke({ request }): the edge from __start__ leads to router
routingInvoke(input) ==
    /\ rtNode = "__start__"
    /\ rtState' = [rtState EXCEPT !.request = input]
    /\ rtNode' = "router"
    /\ UNCHANGED <<rtLog, rtReply>>
    /\ UNCHANGED xRouting

\* router: the destination is written, then routeLogic's value is looked up
\* in the mapping
routerNode(content) ==
    /\ rtNode = "router"
    /\ LET next == [rtState EXCEPT !.destination = Destination(content)]
       IN /\ rtState' = next
          /\ rtNode' = IF routingRouteLogic(next) \in RoutingKeys
                       THEN routingRouteLogic(next) ELSE "error"
    /\ rtLog' = Append(rtLog, [node |-> "router"])
    /\ rtReply' = content
    /\ UNCHANGED xRouting

\* tech_agent: the answer is the response; the edge leads to END
techNode(reply) ==
    /\ rtNode = "tech_agent"
    /\ rtState' = [rtState EXCEPT !.response = reply]
    /\ rtLog' = Append(rtLog, [node |-> "tech_agent"])
    /\ rtNode' = "END"
    /\ UNCHANGED rtReply
    /\ UNCHANGED xRouting

\* life_agent: likewise
lifeNode(reply) ==
    /\ rtNode = "life_agent"
    /\ rtState' = [rtState EXCEPT !.response = reply]
    /\ rtLog' = Append(rtLog, [node |-> "life_agent"])
    /\ rtNode' = "END"
    /\ UNCHANGED rtReply
    /\ UNCHANGED xRouting

\* general_agent: likewise
generalNode(reply) ==
    /\ rtNode = "general_agent"
    /\ rtState' = [rtState EXCEPT !.response = reply]
    /\ rtLog' = Append(rtLog, [node |-> "general_agent"])
    /\ rtNode' = "END"
    /\ UNCHANGED rtReply
    /\ UNCHANGED xRouting

RoutingNext ==
    \/ \E i \in RoutingRequests : routingInvoke(i)
    \/ \E c \in ClassifierReplies : routerNode(c)
    \/ \E r \in HandlerReplies : techNode(r)
    \/ \E r \in HandlerReplies : lifeNode(r)
    \/ \E r \in HandlerReplies : generalNode(r)

\* ======================================================================
\*                 TREE-OF-THOUGHTS WORKFLOW (tot_agent.ts)
\* ======================================================================
\* the arrays the proposer's answer parses to
ThoughtLists ==
    {<<>>, <<"A">>, <<"A", "B">>, <<"A", "B", "C">>, <<"A", "B", "A">>}

\* the evaluator's answers, as pieces of text: the marker SCORE: is one
\* piece, the others are single characters
MARK == "SCORE:"
EvalReplies ==
    {<<"x">>, <<"x", MARK, " ", "8">>, <<MARK, "1", "0">>, <<MARK, " ", "0", "8", ".", "5">>,
     <<MARK, " ", "x", MARK, "3">>, <<MARK, "3", " ", MARK, "9">>}
Solutions == {"", "plan"}

Digits == {"0", "1", "2", "3", "4", "5", "6", "7", "8", "9"}
DigitValue(c) ==
    CASE c = "0" -> 0 [] c = "1" -> 1 [] c = "2" -> 2 [] c = "3" -> 3 [] c = "4" -> 4
      [] c = "5" -> 5 [] c = "6" -> 6 [] c = "7" -> 7 [] c = "8" -> 8 [] c = "9" -> 9

\* parseInt of a run of digits
RECURSIVE parseInt(_)
parseInt(ds) ==
    IF ds = <<>> THEN 0 ELSE parseInt(SubSeq(ds, 1, Len(ds) - 1)) * 10 + DigitValue(ds[Len(ds)])

\* the first position after k that holds no white space
RECURSIVE SkipSpace(_, _)
SkipSpace(content, k) ==
    IF k <= Len(content) /\ content[k] = " " THEN SkipSpace(content, k + 1) ELSE k

\* the longest run of digits that starts at k
RECURSIVE DigitRun(_, _)
DigitRun(content, k) ==
    IF k <= Len(content) /\ content[k] \in Digits
    THEN <<content[k]>> \o DigitRun(content, k + 1) ELSE <<>>

\* the positions where /SCORE:\s*(\d+)/ matches
MatchesAt(content) ==
    {k \in 1..Len(content) :
        content[k] = MARK /\ DigitRun(content, SkipSpace(content, k + 1)) # <<>>}

\* match ? parseInt(match[1]) : 0, match being the first match
Score(content) ==
    IF MatchesAt(content) = {} THEN 0
    ELSE LET k == CHOOSE m \in MatchesAt(content) : \A n \in MatchesAt(content) : m <= n
         IN parseInt(DigitRun(content, SkipSpace(content, k + 1)))

\* mutant: a later thought with the same score replaces the earlier one
RECURSIVE EvalLoop_lastTie(_, _, _, _, _)
EvalLoop_lastTie(thoughts, replies, k, maxScore, bestThought) ==
    IF k > Len(thoughts) THEN bestThought
    ELSE IF Score(replies[k]) >= maxScore
         THEN EvalLoop_lastTie(thoughts, replies, k + 1, Score(replies[k]), thoughts[k])
         ELSE EvalLoop_lastTie(thoughts, replies, k + 1, maxScore, bestThought)

\* the loop of evaluateNode from its k-th round on: the best thought at its end
RECURSIVE EvalLoop(_, _, _, _, _)
EvalLoop(thoughts, replies, k, maxScore, bestThought) ==
    IF k > Len(thoughts) THEN bestThought
    ELSE IF Score(replies[k]) > maxScore
         THEN EvalLoop(thoughts, replies, k + 1, Score(replies[k]), thoughts[k])
         ELSE EvalLoop(thoughts, replies, k + 1, maxScore, bestThought)

ToTState == [problem |-> "undefined", thoughts |-> <<>>, evaluations |-> <<>>,
             bestThought |-> "undefined", finalSolution |-> "undefined"]

\* app.invoke({ problem }): the edge from __start__ leads to propose
totInvoke(problem) ==
    /\ ttNode = "__start__"
    /\ ttState' = [ttState EXCEPT !.problem = problem]
    /\ ttNode' = "propose"
    /\ UNCHANGED ttAsked
    /\ UNCHANGED xToT

proposeNode(thoughts) ==
    /\ ttNode = "propose"
    /\ ttState' = [ttState EXCEPT !.thoughts = thoughts]
    /\ ttNode' = "evaluate"
    /\ UNCHANGED ttAsked
    /\ UNCHANGED xToT

\* evaluate: one model call per thought, in order; with no thought at all
\* bestThought is undefined and bestThought.slice throws
evaluateNode(replies) ==
    /\ ttNode = "evaluate"
    /\ Len(replies) = Len(ttState.thoughts)
    /\ LET thoughts == ttState.thoughts
       IN /\ ttAsked' = [k \in 1..Len(thoughts) |-> [thought |-> thoughts[k], reply |-> replies[k]]]
          /\ IF thoughts = <<>>
             THEN /\ ttNode' = "error"
                  /\ ttState' = ttState
             ELSE /\ ttNode' = "solve"
                  /\ ttState' = [ttState EXCEPT
                        !.evaluations = replies,
                        !.bestThought = EvalLoop(thoughts, replies, 1, -1, thoughts[1])]
    /\ UNCHANGED xToT

solveNode(reply) ==
    /\ ttNode = "solve"
    /\ ttState' = [ttState EXCEPT !.finalSolution = reply]
    /\ ttNode' = "END"
    /\ UNCHANGED ttAsked
    /\ UNCHANGED xToT

ToTNext ==
    \/ totInvoke("problem")
    \/ \E t \in ThoughtLists : proposeNode(t)
    \/ \E n \in 0..3 : \E r \in [1..n -> EvalReplies] : evaluateNode(r)
    \/ \E r \in Solutions : solveNode(r)

\* ======================================================================
\*                  THE CLIENT CONNECTED TO THE SERVER
\* ======================================================================
\* the calls explored: every method the server knows, an unknown one, and
\* tools/call with good arguments, bad arguments, an unknown tool and a name
\* that cannot be turned into a string
PairCalls ==
    {[method |-> "initialize", params |-> NoParams],
     [method |-> "tools/list", params |-> EmptyParams],
     [method |-> "foo", params |-> NoParams],
     [method |-> "tools/call", params |-> NoParams],
     [method |-> "tools/call",
      params |-> [EmptyParams EXCEPT !.name = Str("echo"),
                                     !.args = [EmptyArgs EXCEPT !.text = Str("hello")]]],
     [method |-> "tools/call",
      params |-> [EmptyParams EXCEPT !.name = Str("math_add"),
                                     !.args = [EmptyArgs EXCEPT !.a = Num(7), !.b = Str("2")]]],
     [method |-> "tools/call",
      params |-> [EmptyParams EXCEPT !.name = BadObj, !.args = EmptyArgs]]}

\* mutant: the id is written as a string
RequestLine_stringId(id, call) ==
    [kind |-> "object", jsonrpc |-> "2.0", id |-> Str("s"),
     method |-> call.method, params |-> call.params]

\* what the server parses from the line request() writes:
\* { jsonrpc: "2.0", id, method, ...(params === undefined ? {} : { params }) }
RequestLine(id, call) ==
    [kind |-> "object", jsonrpc |-> "2.0", id |-> Num(id),
     method |-> call.method, params |-> call.params]

\* mutant: a callback starts whether or not another one is running
EventLoopIdle_always(pos) == TRUE

\* a callback of the client starts only when none is running: the statements
\* of request() from the write to pending.set run in one turn
EventLoopIdle(pos) == pos = 0

\* the settlement onLine makes for a response line
SettleWith(c, res) ==
    IF res.kind = "error" THEN Reject(c, res.code, res.message, res.data)
    ELSE Resolve(c, res.result)

\* request(), up to and including this.child.stdin.write(payload)
pairRequestWrite(call) ==
    /\ EventLoopIdle(ppPos)
    /\ Len(ppCalls) < MaxCalls
    /\ LET id == AllocatedId(ppNextId)
       IN /\ ppNextId' = IdAfterAlloc(ppNextId)
          /\ toServer' = Append(toServer, RequestLine(id, call))
          /\ ppCalls' = Append(ppCalls, Unsettled(id))
          /\ ppPos' = id
    /\ UNCHANGED <<ppPending, toClient, ppSeen>>
    /\ UNCHANGED xPair

\* request(), the executor of the promise: this.pending.set(id, ...)
pairRequestRegister ==
    /\ ppPos # 0
    /\ ppPending' = PendingSet(ppPending, ppPos, Len(ppCalls))
    /\ ppPos' = 0
    /\ UNCHANGED <<ppNextId, ppCalls, toServer, toClient, ppSeen>>
    /\ UNCHANGED xPair

\* the server, a process of its own, reads the next line and writes what its
\* line handler writes
pairServerLine ==
    /\ toServer # <<>>
    /\ toClient' = Emit(toClient, lineHandler(Head(toServer)))
    /\ toServer' = Tail(toServer)
    /\ UNCHANGED <<ppNextId, ppPending, ppCalls, ppPos, ppSeen>>
    /\ UNCHANGED xPair

\* onLine on the next line of the server's output (a JSON object, so it is
\* neither blank nor unparsable)
pairOnLine ==
    /\ toClient # <<>>
    /\ EventLoopIdle(ppPos)
    /\ LET res == Head(toClient)
           c == IF res.id.t = "num" THEN PendingGet(ppPending, res.id.n) ELSE 0
       IN /\ toClient' = Tail(toClient)
          /\ IF res.id.t # "num"
             THEN UNCHANGED <<ppPending, ppCalls, ppSeen>>
             ELSE /\ ppSeen' = Append(ppSeen, [id |-> res.id.n, hit |-> c # 0])
                  /\ IF c = 0
                     THEN UNCHANGED <<ppPending, ppCalls>>
                     ELSE /\ ppPending' = PendingDelete(ppPending, res.id.n)
                          /\ ppCalls' = [ppCalls EXCEPT ![c] = SettleWith(ppCalls[c], res)]
    /\ UNCHANGED <<ppNextId, ppPos, toServer>>
    /\ UNCHANGED xPair

PairNext ==
    \/ \E call \in PairCalls : pairRequestWrite(call)
    \/ pairRequestRegister
    \/ pairServerLine
    \/ pairOnLine

\* ======================================================================
\*                           SPECIFICATIONS
\* ======================================================================
vars == <<cvars, svars, wirevars, rbvars, rfvars, hvars, mvars, pvars, kvars, gvars, rtvars, ttvars, ppvars>>

\* the state after `new McpStdioClient(child)` and after the server has
\* installed its line handler
Init ==
    /\ nextId = 1
    /\ pending = <<>>
    /\ calls = <<>>
    /\ answered = <<>>
    /\ clientSt = "open"
    /\ cev = [op |-> "new", kind |-> "none", idT |-> "absent", idN |-> 0,
              hit |-> FALSE, method |-> "none", params |-> "none"]
    /\ srvOut = <<>>
    /\ srvN = 0
    /\ srvLastN = 0
    /\ srvSt = "running"
    /\ sev = NonObject("blank")
    /\ wire = <<>>
    /\ wN = 0
    /\ rbNode = "__start__"
    /\ rbState = RobustState
    /\ rbLog = <<>>
    /\ rfNode = "__start__"
    /\ rfState = ReflexionState
    /\ rfLog = <<>>
    /\ hNode = "__start__"
    /\ hState = HitlState
    /\ hLast = [node |-> "__start__", typed |-> <<>>, feedback |-> <<>>]
    /\ hReviews = 0
    /\ mNode = "__start__"
    /\ mState = MemoryState
    /\ mLast = "__start__"
    /\ mBefore = <<>>
    /\ pNode = "__start__"
    /\ pStatus = [positive |-> "idle", negative |-> "idle", aggregator |-> "idle"]
    /\ pState = ParallelState
    /\ pOut = [positive |-> "none", negative |-> "none"]
    /\ pAgg = [runs |-> 0, pros |-> "none", cons |-> "none"]
    /\ kNode = "__start__"
    /\ kState = PlanningState
    /\ kPlan = <<>>
    /\ kRuns = <<>>
    /\ gNode = "__start__"
    /\ gState = SafetyState
    /\ gLog = <<>>
    /\ gReplies = [audit |-> <<>>, sanitize |-> "none"]
    /\ rtNode = "__start__"
    /\ rtState = RoutingState
    /\ rtLog = <<>>
    /\ rtReply = <<>>
    /\ ttNode = "__start__"
    /\ ttState = ToTState
    /\ ttAsked = <<>>
    /\ ppNextId = 1
    /\ ppPending = <<>>
    /\ ppCalls = <<>>
    /\ ppPos = 0
    /\ toServer = <<>>
    /\ toClient = <<>>
    /\ ppSeen = <<>>

\* one client instance fed arbitrary inbound lines
SpecClient == Init /\ [][ClientNext]_vars

\* one server process fed arbitrary input lines
SpecServer == Init /\ [][ServerNext]_vars

\* one stream on which requests and responses are written
SpecWire == Init /\ [][WireNext]_vars

\* one run of the robustness workflow; a node that can run does run
SpecRobust == Init /\ [][RobustNext]_vars
SpecRobustLive == SpecRobust /\ WF_vars(RobustNext)

\* one run of the reflexion workflow; a node that can run does run
SpecReflexion == Init /\ [][ReflexionNext]_vars
SpecReflexionLive == SpecReflexion /\ WF_vars(ReflexionNext)

\* one run of the human-in-the-loop workflow
SpecHitl == Init /\ [][HitlNext]_vars

\* one run of the memory workflow
SpecMemory == Init /\ [][MemoryNext]_vars

\* one run of the parallel workflow, its two branches in any order
SpecParallel == Init /\ [][ParallelNext]_vars

\* one run of the planning workflow
SpecPlanning == Init /\ [][PlanningNext]_vars

\* one run of the guardrails workflow
SpecSafety == Init /\ [][SafetyNext]_vars

\* one run of the routing workflow
SpecRouting == Init /\ [][RoutingNext]_vars

\* one run of the tree-of-thoughts workflow
SpecToT == Init /\ [][ToTNext]_vars

\* the client connected to the server, close() never called
SpecPair == Init /\ [][PairNext]_vars

\* the same, where request() runs on to pending.set, the server reads the
\* lines it is sent, and the client reads the lines it is sent
SpecPairLive ==
    /\ SpecPair
    /\ WF_vars(pairRequestRegister)
    /\ WF_vars(pairServerLine)
    /\ WF_vars(pairOnLine)


\* ======================================================================
\*                        CLAIMS: CLIENT
\* ======================================================================
\* the calls that were allocated identifier i
CallsWithId(i) == {c \in 1..Len(calls) : calls[c].id = i}
\* the positions of the answered log that carry identifier i
AnswersWithId(i) == {k \in 1..Len(answered) : answered[k].idN = i}
\* the outcome a promise has after being settled by a well-formed response line
Outcome(line) ==
    IF line.error \in ErrNames
    THEN [st |-> "rejected", val |-> "undefined", code |-> ErrCode(line.error),
          message |-> ErrMessage(line.error), data |-> ErrData(line.error)]
    ELSE [st |-> "resolved", val |-> IF line.result = "absent" THEN "undefined" ELSE line.result,
          code |-> 0, message |-> "undefined", data |-> "undefined"]
OutcomeOf(c) ==
    [st |-> c.st, val |-> c.val, code |-> c.code, message |-> c.message, data |-> c.data]
WellFormed(line) == line.error # "null"

\* C1: correlation is by identifier, never by arrival order. A promise is
\* settled only by a response line carrying the identifier allocated to its
\* call, and with that line's payload; and every call whose (well-formed)
\* response line has been delivered while it was outstanding is settled with
\* that payload, whatever the order of delivery.
C1_OrderIndependence ==
    \A c \in 1..Len(calls) :
        /\ calls[c].st # "pending" =>
              \E k \in AnswersWithId(calls[c].id) : OutcomeOf(calls[c]) = Outcome(answered[k])
        /\ \A k \in AnswersWithId(calls[c].id) :
              WellFormed(answered[k]) => OutcomeOf(calls[c]) = Outcome(answered[k])

\* two calls were outstanding together and were answered in reverse order,
\* each with its own payload
C1_Witness ==
    /\ Len(calls) = 2 /\ Len(answered) = 2
    /\ answered[1].idN = 2 /\ answered[2].idN = 1
    /\ calls[1].st = "resolved" /\ calls[1].val = "r1"
    /\ calls[2].st = "rejected" /\ calls[2].code = -32602

\* C2: a continuation is fulfilled at most once. A response line whose
\* identifier has already been answered is ignored: no resolve/reject is
\* invoked, nothing is raised, the table and every promise stay as they were;
\* and an answered identifier is no longer a key of the table.
C2_AtMostOnce ==
    [][ /\ \A c \in 1..Len(calls') : calls'[c].n <= 1
        /\ \A k \in 1..Len(answered') : answered'[k].idN \notin DOMAIN pending'
        /\ ( /\ cev'.op = "onLine"
             /\ cev'.kind = "object" /\ cev'.idT = "num"
             /\ AnswersWithId(cev'.idN) # {} )
           => UNCHANGED <<pending, calls, answered, clientSt, nextId>> ]_vars

\* a second response line for an answered identifier has been processed (its
\* id was not found in the table) and the promise kept its settlement, while
\* another call is outstanding
C2_Witness ==
    /\ cev.op = "onLine" /\ cev.kind = "object" /\ cev.idT = "num" /\ ~cev.hit
    /\ \E k \in AnswersWithId(cev.idN) :
          \E c \in CallsWithId(cev.idN) :
                calls[c].n = 1 /\ OutcomeOf(calls[c]) = Outcome(answered[k])
    /\ pending # <<>>

\* C3: request() allocates 1, 2, 3, ... in call order: the c-th call has
\* identifier c, nextId is one more than the number of calls made, and the
\* identifier the next call would get is not a key of the pending table.
C3_FreshIds ==
    /\ \A c \in 1..Len(calls) : calls[c].id = c
    /\ nextId = Len(calls) + 1
    /\ nextId \notin DOMAIN pending
    /\ \A i \in DOMAIN pending : Cardinality(CallsWithId(i)) = 1

C3_Witness ==
    /\ Len(calls) = 2 /\ calls[1].id = 1 /\ calls[2].id = 2
    /\ DOMAIN pending = {1, 2}

\* C8: a response line whose id is not a key of the pending table (never
\* issued, already answered, or not a number) raises nothing, settles
\* nothing, and leaves the table and nextId as they were.
C8_UnknownIdDropped ==
    [][ ( /\ cev'.op = "onLine"
          /\ cev'.kind = "object"
          /\ ~(cev'.idT = "num" /\ cev'.idN \in DOMAIN pending) )
        => UNCHANGED <<pending, nextId, calls, answered, clientSt>> ]_vars

\* a string id that spells a pending number id has been processed while that
\* call and another one are outstanding
C8_Witness ==
    /\ cev.op = "onLine" /\ cev.kind = "object"
    /\ cev.idT = "str" /\ cev.idN = 1
    /\ DOMAIN pending = {1, 2}
    /\ \A c \in 1..Len(calls) : calls[c].st = "pending"

\* C9: a matching response settles the continuation by its members:
\* rejected with error.code, error.message, error.data when it carries an
\* error object, resolved with the value of result when it carries result
\* and no error; never resolved when it carries error.
C9_SettledByMembers ==
    \A k \in 1..Len(answered) : \A c \in CallsWithId(answered[k].idN) :
        LET msg == answered[k] IN
        /\ msg.error \in ErrNames =>
              /\ calls[c].st = "rejected"
              /\ calls[c].code = ErrCode(msg.error)
              /\ calls[c].message = ErrMessage(msg.error)
              /\ calls[c].data = ErrData(msg.error)
        /\ (msg.error = "absent" /\ msg.result # "absent") =>
              calls[c].st = "resolved" /\ calls[c].val = msg.result
        /\ msg.error # "absent" => calls[c].st # "resolved"

\* one call rejected by a response that carries both result and error, and
\* one resolved by a response that carries result only
C9_Witness ==
    /\ Len(answered) = 2
    /\ answered[1].error = "e2" /\ answered[1].result = "r1"
    /\ answered[2].error = "absent" /\ answered[2].result = "r2"
    /\ \E c \in CallsWithId(answered[1].idN) : calls[c].st = "rejected" /\ calls[c].data = "d2"
    /\ \E c \in CallsWithId(answered[2].idN) : calls[c].st = "resolved"

\* C10: a line that is not valid JSON is dropped: onLine does not throw, no
\* continuation is settled or removed, and the client stays open for the
\* following lines.
C10_NonJsonDropped ==
    [][ (cev'.op = "onLine" /\ cev'.kind \in {"blank", "malformed"})
        => /\ UNCHANGED <<pending, nextId, calls, answered>>
           /\ clientSt' = "open" ]_vars

\* a non-JSON line was processed while a call was outstanding, after another
\* call had been answered
C10_Witness ==
    /\ cev.op = "onLine" /\ cev.kind = "malformed"
    /\ pending # <<>> /\ answered # <<>>
    /\ clientSt = "open"

\* C19: close() settles no call: the step of close() leaves every call and
\* the pending table as they are, and a call that is unsettled once the
\* client is closed is unsettled, and still in the table, after every later
\* step.
C19_CloseSettlesNothing ==
    [][ /\ cev'.op = "close" => (calls' = calls /\ pending' = pending)
        /\ clientSt = "closed" =>
              \A c \in 1..Len(calls) :
                  calls[c].st = "pending" =>
                      /\ calls'[c] = calls[c]
                      /\ calls[c].id \in DOMAIN pending => calls[c].id \in DOMAIN pending' ]_vars

\* close() was called with a call outstanding and another call was made
\* after it: the first is still unsettled and still in the table
C19_Witness ==
    /\ clientSt = "closed" /\ cev.op = "request"
    /\ Len(calls) = 2 /\ calls[1].st = "pending" /\ calls[1].n = 0
    /\ calls[1].id \in DOMAIN pending

\* the identifiers request() has issued / the identifiers whose response line
\* onLine has processed (found in the table)
IssuedIds == {calls[c].id : c \in 1..Len(calls)}
ProcessedIds == {answered[k].idN : k \in 1..Len(answered)}

\* C21: the keys of the pending table are the identifiers issued by request()
\* whose response line has not been processed yet, and each is smaller than
\* nextId; a key is added only by request() (the identifier it issues) and
\* removed only by onLine on a line carrying that key.
C21_PendingKeys ==
    [][ /\ DOMAIN pending' = IssuedIds' \ ProcessedIds'
        /\ \A i \in DOMAIN pending' : i < nextId'
        /\ (DOMAIN pending' # DOMAIN pending) =>
              \/ /\ cev'.op = "request"
                 /\ DOMAIN pending' = DOMAIN pending \cup {cev'.idN}
              \/ /\ cev'.op = "onLine" /\ cev'.kind = "object" /\ cev'.idT = "num"
                 /\ cev'.idN \in DOMAIN pending
                 /\ DOMAIN pending' = DOMAIN pending \ {cev'.idN} ]_vars

\* two identifiers were issued and the response to the first was processed:
\* only the second is a key
C21_Witness ==
    /\ IssuedIds = {1, 2} /\ ProcessedIds = {1}
    /\ DOMAIN pending = {2} /\ nextId = 3

\* ======================================================================
\*                        CLAIMS: SERVER
\* ======================================================================
\* the line the last call of the line handler wrote last
LastOut == srvOut[Len(srvOut)]
IsCall(line) == line.kind = "object" /\ line.jsonrpc = "2.0" /\ line.id.t \in {"num", "str"}

\* C4: a request line that is valid JSON with jsonrpc "2.0" and an integer
\* or string id gets exactly one response line, which carries the request's
\* id, whatever the method and the params.
C4_OneResponsePerCall ==
    (srvN > 0 /\ IsCall(sev)) => (srvLastN = 1 /\ LastOut.id = sev.id)

\* two calls with different ids have been answered, the second one a
\* tools/call whose handler rejected the arguments
C4_Witness ==
    /\ srvN = 2 /\ Len(srvOut) = 2 /\ IsCall(sev)
    /\ sev.method = "tools/call" /\ sev.id = Str("s")
    /\ srvOut[1].id = Num(1) /\ srvOut[2].id = Str("s") /\ srvOut[2].code = -32602

\* C5 as stated: a request whose id is absent or null gets no response line.
C5_AbsentOrNullIdSilent ==
    (srvN > 0 /\ sev.kind = "object" /\ sev.id.t \in {"absent", "null"}) => srvLastN = 0

\* C5 amended: a request object without an id member gets no response line,
\* whatever its method, params and jsonrpc member.
C5_NotificationSilent ==
    (srvN > 0 /\ sev.kind = "object" /\ sev.id.t = "absent") => srvLastN = 0

\* a notification naming tools/call followed a call: only the call was answered
C5_Witness ==
    /\ srvN = 2 /\ sev.kind = "object" /\ sev.id.t = "absent"
    /\ sev.jsonrpc = "2.0" /\ sev.method = "tools/call"
    /\ Len(srvOut) = 1 /\ srvLastN = 0

\* C6 as stated: every line that is not JSON gets exactly one -32700 error
\* with id null, and the server goes on.
C6_EveryNonJsonLine ==
    (srvN > 0 /\ sev.kind \in {"blank", "malformed"}) =>
        /\ srvLastN = 1
        /\ LastOut.kind = "error" /\ LastOut.code = -32700 /\ LastOut.id = Null
        /\ srvSt # "crashed"

\* C6 amended: every line that is not JSON and is not empty after trimming
\* gets exactly one -32700 error with id null; the handler does not throw.
C6_ParseError ==
    (srvN > 0 /\ sev.kind = "malformed") =>
        /\ srvLastN = 1
        /\ LastOut.kind = "error" /\ LastOut.code = -32700 /\ LastOut.id = Null
        /\ srvSt # "crashed"

\* a malformed line was answered with the parse error and the line after it
\* was processed and answered with a result
C6_Witness ==
    /\ srvN = 2 /\ Len(srvOut) = 2 /\ srvSt = "running"
    /\ srvOut[1].code = -32700 /\ srvOut[1].id = Null /\ srvOut[1].data = StrData("SyntaxError")
    /\ srvOut[2].kind = "result"

UnknownMethodCall(line) ==
    /\ line.kind = "object" /\ line.jsonrpc = "2.0"
    /\ line.id.t \in {"num", "str", "null"}
    /\ line.method \notin {"initialize", "tools/list", "tools/call", "absent", "badobj"}

\* C7 as stated: the -32601 error of an unknown method carries the method
\* name in error.data.
C7_MethodNameInData ==
    (srvN > 0 /\ UnknownMethodCall(sev)) =>
        /\ srvLastN = 1
        /\ LastOut.kind = "error" /\ LastOut.code = -32601
        /\ LastOut.data.t # "absent"

\* C7 amended: a request with a number, string or null id that names a method
\* other than the three gets exactly one response, an error of code -32601
\* whose message carries the requested method name and which has no data.
C7_MethodNotFound ==
    (srvN > 0 /\ UnknownMethodCall(sev)) =>
        /\ srvLastN = 1
        /\ LastOut.kind = "error" /\ LastOut.code = -32601
        /\ LastOut.id = sev.id
        /\ LastOut.message.arg = sev.method
        /\ LastOut.data = NoData

C7_Witness ==
    /\ srvN = 1 /\ UnknownMethodCall(sev) /\ sev.method = "foo" /\ sev.id = Num(1)
    /\ Len(srvOut) = 1 /\ srvOut[1].code = -32601 /\ srvOut[1].message.arg = "foo"

\* ---- C11 .. C18, C20 -----------------------------------------------------
\* a request object with jsonrpc "2.0" and an id that is a number, a string
\* or null, naming the given method
Answerable(line) ==
    line.kind = "object" /\ line.jsonrpc = "2.0" /\ line.id.t \in {"num", "str", "null"}
ToolCall(line, name) ==
    Answerable(line) /\ line.method = "tools/call" /\ line.params.name = name

\* the arguments object the data of an error reports: the one received, or
\* the empty object when the request carries none
ReceivedArgs(line) == IF line.params.args.t = "absent" THEN EmptyArgs ELSE line.params.args

C12_InvalidRequest ==
    (srvN > 0 /\ sev.kind = "object" /\ sev.jsonrpc # "2.0") =>
        /\ sev.id.t \in {"num", "str", "null"} =>
              /\ srvLastN = 1
              /\ LastOut.kind = "error" /\ LastOut.code = -32600
              /\ LastOut.id = sev.id
              /\ LastOut.result = NoResult
        /\ sev.id.t = "absent" => srvLastN = 0

\* an initialize request without a jsonrpc member was refused, and the same
\* request sent as a notification with jsonrpc "1.0" was left unanswered
C12_Witness ==
    /\ srvN = 2 /\ Len(srvOut) = 1 /\ srvLastN = 0
    /\ srvOut[1].code = -32600 /\ srvOut[1].id = Str("s")
    /\ sev.kind = "object" /\ sev.jsonrpc = "1.0" /\ sev.id.t = "absent"
    /\ sev.method = "initialize"

\* C13: a tools/call of math_add in which a or b is missing or is not a
\* number, and a tools/call of echo in which text is not a string, get the
\* -32602 error whose data holds the tool name and the arguments received,
\* and no result.
C13_InvalidParams ==
    (/\ srvN > 0
     /\ \/ /\ ToolCall(sev, Str("math_add"))
           /\ (sev.params.args.a.t # "num" \/ sev.params.args.b.t # "num")
        \/ /\ ToolCall(sev, Str("echo"))
           /\ sev.params.args.text.t # "str") =>
        /\ srvLastN = 1
        /\ LastOut.kind = "error" /\ LastOut.code = -32602
        /\ LastOut.id = sev.id
        /\ LastOut.data = ToolData(sev.params.name, ReceivedArgs(sev))
        /\ LastOut.result = NoResult

\* math_add was called with {"a": "x", "b": 2}
C13_Witness ==
    /\ srvN = 1 /\ ToolCall(sev, Str("math_add"))
    /\ sev.params.args.a = Str("x") /\ sev.params.args.b = Num(2)
    /\ Len(srvOut) = 1 /\ srvOut[1].code = -32602
    /\ srvOut[1].data.args.a = Str("x") /\ srvOut[1].data.args.b = Num(2)

\* the decimal numerals of the sums the explored arguments have
Numeral(n) == CASE n = 42 -> "42" [] n = -15 -> "-15" [] OTHER -> "?"

\* C14: a tools/call of math_add with numbers a and b gets a result whose
\* content is one item of type text, its text the decimal numeral of a + b.
C14_MathAdd ==
    (/\ srvN > 0 /\ ToolCall(sev, Str("math_add"))
     /\ sev.params.args.a.t = "num" /\ sev.params.args.b.t = "num") =>
        /\ srvLastN = 1
        /\ LastOut.kind = "result" /\ LastOut.id = sev.id
        /\ LastOut.result.t = "content"
        /\ LastOut.result.content =
              <<[type |-> "text", text |-> Numeral(sev.params.args.a.n + sev.params.args.b.n)]>>

\* 7 + 35 gave "42" and then -50 + 35 gave "-15"
C14_Witness ==
    /\ srvN = 2 /\ Len(srvOut) = 2
    /\ ToolCall(sev, Str("math_add"))
    /\ sev.params.args.a = Num(-50) /\ sev.params.args.b = Num(35)
    /\ srvOut[1].result.content = <<[type |-> "text", text |-> "42"]>>
    /\ srvOut[2].result.content = <<[type |-> "text", text |-> "-15"]>>

\* C15: a tools/call of echo with a string text gets a result whose content
\* is one item of type text, its text the string received, unchanged.
C15_Echo ==
    (srvN > 0 /\ ToolCall(sev, Str("echo")) /\ sev.params.args.text.t = "str") =>
        /\ srvLastN = 1
        /\ LastOut.kind = "result" /\ LastOut.id = sev.id
        /\ LastOut.result.t = "content"
        /\ LastOut.result.content = <<[type |-> "text", text |-> sev.params.args.text.s]>>

\* a text with capital letter and surrounding blanks came back as it was
C15_Witness ==
    /\ srvN = 1 /\ ToolCall(sev, Str("echo")) /\ sev.params.args.text = Str(" Hi ")
    /\ Len(srvOut) = 1
    /\ srvOut[1].result.content = <<[type |-> "text", text |-> " Hi "]>>

\* the JSON Schema type of a value
JsonType(v) ==
    CASE v.t = "num" -> "number" [] v.t = "str" -> "string" [] v.t = "bool" -> "boolean"
      [] v.t = "null" -> "null" [] v.t = "badobj" -> "object" [] OTHER -> "none"

\* the type a listed tool declares for the property f
DeclaredType(tool, f) ==
    LET k == CHOOSE k \in 1..Len(tool.properties) : tool.properties[k].name = f
    IN tool.properties[k].type

\* the call held by `line` supplies every required field of the tool with
\* the declared type / leaves a required field out
SuppliesRequired(line, tool) ==
    \A j \in 1..Len(tool.required) :
        JsonType(ReceivedArgs(line)[tool.required[j]]) = DeclaredType(tool, tool.required[j])
OmitsRequired(line, tool) ==
    \E j \in 1..Len(tool.required) : ReceivedArgs(line)[tool.required[j]].t = "absent"

\* the call was taken as a call of a known tool: its arguments were looked at
AcceptedName(res) == res.kind = "result" \/ (res.kind = "error" /\ res.code = -32602)

\* the tool list `list` agrees with the answer `res` to the tools/call `line`
Consistent(list, line, res) ==
    /\ \A k \in 1..Len(list) :
          line.params.name = Str(list[k].name) =>
              /\ SuppliesRequired(line, list[k]) => res.kind = "result"
              /\ OmitsRequired(line, list[k]) => (res.kind = "error" /\ res.code = -32602)
    /\ AcceptedName(res) <=> \E k \in 1..Len(list) : line.params.name = Str(list[k].name)

\* C16: every tool list a tools/list has returned agrees with the answer to
\* a tools/call: a call of a listed tool that supplies each required field
\* with the declared type, and no other field, gets a result; one that
\* leaves a required field out gets the -32602 error; and the names
\* tools/call accepts are the names listed.
C16_ListMatchesValidation ==
    (srvN > 0 /\ Answerable(sev) /\ sev.method = "tools/call") =>
        /\ srvLastN = 1
        /\ \A i \in 1..Len(srvOut) :
              srvOut[i].result.t = "tools" => Consistent(srvOut[i].result.tools, sev, LastOut)

\* the list was returned, then math_add was called with a alone and refused
C16_Witness ==
    /\ srvN = 2 /\ Len(srvOut) = 2
    /\ srvOut[1].result.t = "tools" /\ Len(srvOut[1].result.tools) = 2
    /\ ToolCall(sev, Str("math_add"))
    /\ sev.params.args.a = Num(7) /\ sev.params.args.b = Absent
    /\ srvOut[2].code = -32602

InitializeCall(line) == Answerable(line) /\ line.method = "initialize"

\* C17 as stated: initialize gets a result, never an error; its
\* protocolVersion is the requested value when params has one, the default
\* otherwise.
C17_EchoedWhenPresent ==
    (srvN > 0 /\ InitializeCall(sev)) =>
        /\ srvLastN = 1
        /\ LastOut.kind = "result" /\ LastOut.result.t = "initialize"
        /\ sev.params.pv.t # "absent" => Str(LastOut.result.pv) = sev.params.pv
        /\ sev.params.pv.t = "absent" => LastOut.result.pv = "2025-06-18"

\* C17 amended: initialize gets a result, never an error; its
\* protocolVersion is the requested value when params has a protocolVersion
\* that is a string, and "2025-06-18" in every other case.
C17_Initialize ==
    (srvN > 0 /\ InitializeCall(sev)) =>
        /\ srvLastN = 1
        /\ LastOut.kind = "result" /\ LastOut.id = sev.id
        /\ LastOut.result.t = "initialize"
        /\ sev.params.pv.t = "str" => LastOut.result.pv = sev.params.pv.s
        /\ sev.params.pv.t # "str" => LastOut.result.pv = "2025-06-18"

\* a requested "2024-11-05" was echoed, and then a requested 1 (a number)
\* was answered with the default
C17_Witness ==
    /\ srvN = 2 /\ Len(srvOut) = 2
    /\ srvOut[1].result.pv = "2024-11-05"
    /\ InitializeCall(sev) /\ sev.params.pv = Num(1)
    /\ srvOut[2].kind = "result" /\ srvOut[2].result.pv = "2025-06-18"

\* requests whose handling raises an exception inside the try block: a
\* tools/call whose name, and a request whose method, cannot be converted to
\* a string
RaisesInside(line) ==
    /\ Answerable(line)
    /\ \/ (line.method = "tools/call" /\ line.params.name = BadObj)
       \/ line.method = "badobj"

\* C18: a request with an id whose handling raises an exception gets exactly
\* one response, the -32603 error carrying the id of the request, and the
\* exception does not leave the dispatcher.
C18_InternalError ==
    (srvN > 0 /\ RaisesInside(sev)) =>
        /\ srvLastN = 1
        /\ LastOut.kind = "error" /\ LastOut.code = -32603
        /\ LastOut.id = sev.id
        /\ LastOut.result = NoResult
        /\ srvSt # "crashed"

\* a tools/call raised and was answered -32603; the line after it, a
\* tools/call that raises too, was processed and answered the same way
C18_Witness ==
    /\ srvN = 2 /\ Len(srvOut) = 2 /\ srvSt = "running"
    /\ srvOut[1].code = -32603 /\ srvOut[1].id = Num(1)
    /\ sev.method = "tools/call" /\ sev.params.name = BadObj /\ sev.id = Str("s")
    /\ srvOut[2].code = -32603 /\ srvOut[2].id = Str("s")

\* C20: the responses to a line are written after every response to an
\* earlier line: a line step keeps the output written so far as it is and
\* appends what the line's handling writes.
C20_ArrivalOrder ==
    [][srvN' = srvN + 1 =>
          /\ Len(srvOut') = Len(srvOut) + srvLastN'
          /\ SubSeq(srvOut', 1, Len(srvOut)) = srvOut]_vars

\* two requests were answered in the order they arrived
C20_Witness ==
    /\ srvN = 2 /\ Len(srvOut) = 2
    /\ srvOut[1].id = Num(1) /\ srvOut[1].kind = "result"
    /\ srvOut[2].id = Str("s") /\ srvOut[2].kind = "error" /\ sev.id = Str("s")

\* ======================================================================
\*                        CLAIMS: CHANNEL TEXT
\* ======================================================================
\* the quotes of the text cs that are not escaped: an even number of
\* backslashes stands right before them
BackslashesBefore(cs, j) ==
    Cardinality({k \in 1..(j - 1) : \A m \in k..(j - 1) : cs[m] = BSL})
UnescapedQuotes(cs) ==
    {j \in 1..Len(cs) : cs[j] = QUOTE /\ BackslashesBefore(cs, j) % 2 = 0}

\* the text cs is one complete JSON object: it starts with a brace, its
\* strings are closed, the brackets outside strings close exactly at the
\* last character and not before, a backslash occurs only inside a string,
\* and no line terminator occurs anywhere
OneJsonValue(cs) ==
    LET n == Len(cs)
        UQ == UnescapedQuotes(cs)
        InString(i) == i \notin UQ /\ Cardinality({j \in UQ : j < i}) % 2 = 1
        Outside(i) == i \notin UQ /\ ~InString(i)
        Opens == {i \in 1..n : Outside(i) /\ cs[i] \in {"{", "["}}
        Closes == {i \in 1..n : Outside(i) /\ cs[i] \in {"}", "]"}}
        Depth(i) == Cardinality({o \in Opens : o <= i}) - Cardinality({c \in Closes : c <= i})
    IN  /\ n > 0 /\ cs[1] = "{"
        /\ \A i \in 1..n : cs[i] \notin {LF, CR}
        /\ \A i \in 1..n : cs[i] = BSL => InString(i)
        /\ Cardinality(UQ) % 2 = 0
        /\ \A i \in 1..(n - 1) : Depth(i) >= 1
        /\ Depth(n) = 0

\* the lines of the stream: line k is the text between the (k-1)-th and the
\* k-th newline
Newlines == {i \in 1..Len(wire) : wire[i] = LF}
NewlineAt(k) == IF k = 0 THEN 0 ELSE CHOOSE p \in Newlines : Cardinality({q \in Newlines : q <= p}) = k
WireLine(k) == SubSeq(wire, NewlineAt(k - 1) + 1, NewlineAt(k) - 1)

\* C22: after n messages have been written the stream holds exactly n
\* lines, each one complete JSON value followed by one newline, and nothing
\* after the last newline.
C22_OneValuePerLine ==
    /\ Cardinality(Newlines) = wN
    /\ wN > 0 => wire[Len(wire)] = LF
    /\ \A k \in 1..wN : OneJsonValue(WireLine(k))

\* a request whose text holds a newline and a response whose text holds
\* braces around a newline were written
C22_Witness ==
    /\ wN = 2
    /\ \E k \in 1..(Len(wire) - 1) : wire[k] = BSL /\ wire[k + 1] = "n"
    /\ \E k \in 1..(Len(wire) - 4) :
          /\ wire[k] = "}" /\ wire[k + 1] = BSL /\ wire[k + 2] = "n" /\ wire[k + 3] = "{"
    /\ \E k \in 1..(Len(wire) - 1) : wire[k] = "m" /\ wire[k + 1] = "s"
    /\ \E k \in 1..(Len(wire) - 1) : wire[k] = "m" /\ wire[k + 1] = "e" /\ wire[k + 2] = "t"

\* ======================================================================
\*                        CLAIMS: WORKFLOWS
\* ======================================================================
\* the positions of a log at which the given node ran
RunsOf(log, node) == {k \in 1..Len(log) : log[k].node = node}

\* C23 as stated: a run in which primary_tool failed on every attempt on
\* which the failure branch is open (attempts < 2), and failed at all, has
\* executed the fallback node when it ends.
C23_FailuresLeadToFallback ==
    (/\ rbNode = "END"
     /\ \E k \in RunsOf(rbLog, "primary_tool") : rbLog[k].failed
     /\ \A k \in RunsOf(rbLog, "primary_tool") : rbLog[k].attempts < 2 => rbLog[k].failed)
        => RunsOf(rbLog, "fallback") # {}

\* C24: primary_tool runs at most 3 times in a run, attempts never exceeds
\* 3, and a run that has started reaches END, whatever the random draws and
\* the replies of the model.
C24_AtMostThreeAttempts ==
    /\ [](Cardinality(RunsOf(rbLog, "primary_tool")) <= 3 /\ rbState.attempts <= 3)
    /\ (rbNode = "primary_tool") ~> (rbNode = "END")

\* the run used all three attempts (two failures and an empty reply), went
\* through the fallback and ended
C24_Witness ==
    /\ rbNode = "END" /\ rbState.attempts = 3
    /\ Cardinality(RunsOf(rbLog, "primary_tool")) = 3
    /\ rbLog[1].failed /\ rbLog[2].failed /\ ~rbLog[3].failed
    /\ RunsOf(rbLog, "fallback") = {4}

\* how many times the given node has run, by a log of node names
Count(log, node) == Cardinality({k \in 1..Len(log) : log[k] = node})

\* C25: generate runs at most 3 times in a run, revisionNumber never
\* exceeds 3, a run that ends with fewer than 3 revisions has a latest
\* critique that contains TERMINATE, and a run that has started reaches END.
C25_BoundedReflexion ==
    /\ [](/\ Count(rfLog, "generate") <= 3
          /\ rfState.revisionNumber <= 3
          /\ (rfNode = "END" /\ rfState.revisionNumber < 3) =>
                \E k \in 1..Len(rfState.critique) : rfState.critique[k] = "TERMINATE")
    /\ (rfNode = "generate") ~> (rfNode = "END")

\* the critic never said TERMINATE: the run ended after the third revision
C25_Witness ==
    /\ rfNode = "END" /\ rfState.revisionNumber = 3
    /\ rfLog = <<"generate", "reflect", "generate", "reflect", "generate", "reflect">>
    /\ rfState.critique = <<"terminate">>

\* the typed lines that are an approval: approve or ok, in any case, with
\* blanks around them or not
ApprovingLines ==
    {<<"o", "k">>, <<"O", "K">>, <<" ", "o", "k", " ">>,
     <<"a", "p", "p", "r", "o", "v", "e">>, <<"A", "p", "p", "r", "o", "v", "e">>}

\* C26: the sender runs only after an approval: when the sender is the next
\* node or has run, the line typed at the last human review was an approval
\* and the feedback that review returned is "approve"; after a review with
\* any other line, the empty one included, the next node is the writer.
C26_SendOnlyAfterApproval ==
    /\ (hNode = "sender" \/ hLast.node = "sender") =>
          (hLast.typed \in ApprovingLines /\ hLast.feedback = <<"a", "p", "p", "r", "o", "v", "e">>)
    /\ (hLast.node = "human" /\ hLast.typed \notin ApprovingLines) => hNode = "writer"

\* the first review was an empty line, which led back to the writer; the
\* second was " ok ", and the mail was sent
C26_Witness ==
    /\ hNode = "END" /\ hLast.node = "sender" /\ hReviews = 2
    /\ hLast.typed = <<" ", "o", "k", " ">>
    /\ hState.finalResult = <<"S", "E", "N", "T">>

\* the last two elements of a sequence of at least two
LastTwo(q) == SubSeq(q, Len(q) - 1, Len(q))

\* C27: after the summarize node's update has been applied, the messages of
\* the state are exactly the last two messages that were there before it.
C27_KeepsLastTwo ==
    mLast = "summarize" => mState.messages = LastTwo(mBefore)

\* C28: the aggregator has started only when positive and negative have both
\* returned and pros and cons hold what they returned; it reads those values;
\* it never runs twice, and a run that has ended has run it once.
C28_AggregatorWaitsForBoth ==
    /\ pStatus.aggregator # "idle" =>
          /\ pStatus.positive = "done" /\ pStatus.negative = "done"
          /\ pOut.positive # "none" /\ pOut.negative # "none"
          /\ pState.pros = pOut.positive /\ pState.cons = pOut.negative
    /\ pAgg.runs >= 1 => (pAgg.pros = pOut.positive /\ pAgg.cons = pOut.negative)
    /\ pAgg.runs <= 1
    /\ pNode = "END" => pAgg.runs = 1

\* negative returned first, positive second, and the aggregator then ran
C28_Witness ==
    /\ pNode = "END" /\ pAgg.runs = 1
    /\ pAgg.pros = "p1" /\ pAgg.cons = "c2"
    /\ pState.finalSummary = "sum1"

\* C29: once the planner has produced its plan, the steps left and the
\* results collected add up to the length of that plan, and when the
\* responder is next or has run the plan is empty and the executor has run
\* once for each step of the plan.
C29_OncePerStep ==
    /\ kNode \in {"executor", "responder", "END"} =>
          Len(kState.plan) + Len(kState.pastSteps) = Len(kPlan)
    /\ kNode \in {"responder", "END"} =>
          (kState.plan = <<>> /\ Len(kRuns) = Len(kPlan))

\* C30: sanitize and pass never both run and neither runs twice, and a run
\* that has ended has run exactly one of them; pass has run only with the
\* status SAFE, and finalOutput is then the raw response; with the status
\* UNSAFE at the end sanitize has run, pass has not, and finalOutput is what
\* the sanitizer's model call returned.
C30_OneOfSanitizeOrPass ==
    /\ Cardinality(RunsOf(gLog, "sanitize")) + Cardinality(RunsOf(gLog, "pass")) <= 1
    /\ gNode = "END" =>
          Cardinality(RunsOf(gLog, "sanitize")) + Cardinality(RunsOf(gLog, "pass")) = 1
    /\ RunsOf(gLog, "pass") # {} =>
          (gState.safetyStatus = "SAFE" /\ gState.finalOutput = gState.rawResponse)
    /\ (gState.safetyStatus = "UNSAFE" /\ gNode \in {"sanitize", "END"}) =>
          RunsOf(gLog, "pass") = {}
    /\ (gState.safetyStatus = "UNSAFE" /\ gNode = "END") =>
          (RunsOf(gLog, "sanitize") # {} /\ gState.finalOutput = gReplies.sanitize)

\* the audit's answer contained UNSAFE inside a sentence; the sanitizer ran
\* and its text is the final output
C30_Witness ==
    /\ gNode = "END"
    /\ gReplies.audit = <<"it", "is", "UNSAFE", "indeed">>
    /\ gState.rawResponse = "raw2" /\ gState.finalOutput = "clean"
    /\ gLog = <<[node |-> "generate"], [node |-> "audit"], [node |-> "sanitize"]>>

\* the explored classifier replies that contain tech in any case, and those
\* that contain life in any case
TechReplies ==
    {<<"T", "E", "C", "H">>, <<"t", "e", "c", "h">>,
     <<"l", "i", "f", "e", "t", "e", "c", "h">>, <<"t", "e", "c", "h", "l", "i", "f", "e">>}
LifeReplies ==
    {<<" ", "L", "i", "f", "e", " ">>, <<"L", "I", "F", "E">>,
     <<"l", "i", "f", "e", "t", "e", "c", "h">>, <<"t", "e", "c", "h", "l", "i", "f", "e">>}
HandlersRun == {k \in 1..Len(rtLog) : rtLog[k].node # "router"}

\* C31: once the router has run, destination is tech_agent when the reply
\* contains TECH in any case, else life_agent when it contains LIFE, else
\* general_agent; the value is always a key of the mapping; no run has two
\* handler executions, and a run that has ended has exactly one, the handler
\* named by destination.
C31_DestinationIsAKey ==
    /\ rtNode # "error"
    /\ RunsOf(rtLog, "router") # {} =>
          /\ rtState.destination \in {"tech_agent", "life_agent", "general_agent"}
          /\ rtState.destination = "tech_agent" <=> rtReply \in TechReplies
          /\ rtState.destination = "life_agent" <=>
                (rtReply \in LifeReplies /\ rtReply \notin TechReplies)
    /\ Cardinality(HandlersRun) <= 1
    /\ rtNode = "END" =>
          /\ Cardinality(HandlersRun) = 1
          /\ \A k \in HandlersRun : rtLog[k].node = rtState.destination

\* the reply was lower-case "lifetech": TECH wins, and the tech handler ran
C31_Witness ==
    /\ rtNode = "END"
    /\ rtReply = <<"l", "i", "f", "e", "t", "e", "c", "h">>
    /\ rtLog = <<[node |-> "router"], [node |-> "tech_agent"]>>
    /\ rtState.response = "answer1"

\* the score each explored answer states: the number after the first SCORE:
\* that is followed by digits, 0 when there is none
StatedScore(reply) ==
    CASE reply = <<"x">> -> 0
      [] reply = <<"x", "SCORE:", " ", "8">> -> 8
      [] reply = <<"SCORE:", "1", "0">> -> 10
      [] reply = <<"SCORE:", " ", "0", "8", ".", "5">> -> 8
      [] reply = <<"SCORE:", " ", "x", "SCORE:", "3">> -> 3
      [] reply = <<"SCORE:", "3", " ", "SCORE:", "9">> -> 3

\* C32: when evaluate has run on a non-empty list of thoughts, evaluations
\* holds the answers in the order of the thoughts they were asked about, and
\* bestThought is the earliest thought whose score is maximal.
C32_BestThoughtIsEarliestMax ==
    (ttNode \in {"solve", "END"}) =>
        /\ Len(ttState.evaluations) = Len(ttState.thoughts)
        /\ \A k \in 1..Len(ttState.thoughts) :
              /\ ttAsked[k].thought = ttState.thoughts[k]
              /\ ttState.evaluations[k] = ttAsked[k].reply
        /\ \E k \in 1..Len(ttState.thoughts) :
              /\ ttState.bestThought = ttState.thoughts[k]
              /\ \A j \in 1..Len(ttState.thoughts) :
                    StatedScore(ttState.evaluations[j]) <= StatedScore(ttState.evaluations[k])
              /\ \A j \in 1..(k - 1) :
                    StatedScore(ttState.evaluations[j]) < StatedScore(ttState.evaluations[k])

\* three thoughts scored 3, 8 and 8: the second one is the best thought
C32_Witness ==
    /\ ttNode = "END"
    /\ ttState.thoughts = <<"A", "B", "C">>
    /\ ttState.evaluations =
          <<(<<"SCORE:", "3", " ", "SCORE:", "9">>), (<<"x", "SCORE:", " ", "8">>),
            (<<"SCORE:", " ", "0", "8", ".", "5">>)>>
    /\ ttState.bestThought = "B"

\* ======================================================================
\*                  CLAIMS: THE CLIENT WITH THE SERVER
\* ======================================================================
\* C33: every call issued is eventually resolved or rejected.
C33_EveryCallSettles ==
    \A c \in 1..MaxCalls :
        (Len(ppCalls) >= c) ~> (Len(ppCalls) >= c /\ ppCalls[c].st # "pending")

\* two calls were issued; one is resolved and the other rejected
C33_Witness ==
    /\ Len(ppCalls) = 2
    /\ ppCalls[1].st = "rejected" /\ ppCalls[2].st = "resolved"
    /\ ppPending = <<>> /\ toServer = <<>> /\ toClient = <<>>

\* C34: every response line with a numeric id that onLine has handled found
\* the entry of its id in the table.
C34_ResponseFindsEntry ==
    \A k \in 1..Len(ppSeen) : ppSeen[k].hit

\* the response to a request lies in the client's input while request() has
\* written the line and not yet made the entry
C34_Witness ==
    /\ ppPos # 0
    /\ ppPos \notin DOMAIN ppPending
    /\ \E k \in 1..Len(toClient) : toClient[k].id = Num(ppPos)

=============================================================================
